---------------------------- MODULE Spec2Model ----------------------------
(***************************************************************************)
(* Alert engine of the stock visualizer: the alert store hook (useAlerts), *)
(* the evaluators (checkPriceAlert, checkTechnicalAlert) and the           *)
(* notification service singleton.                                         *)
(*                                                                         *)
(* Conventions.  An optional field (x?: T) is a sequence: <<>> when the    *)
(* field is undefined and <<v>> when it holds v.  A Date is the integer    *)
(* clock reading it was built from.  A JavaScript number that takes part   *)
(* in a division is a record: a rational, NaN or an infinity.  The field   *)
(* uid of a rule and the field seq of a notification are history fields:   *)
(* they number the instances in creation order and no modelled code reads  *)
(* them.                                                                   *)
(***************************************************************************)
EXTENDS Integers, Sequences, FiniteSets, TLC

(***************************************************************************)
(* Bounds of the model                                                     *)
(***************************************************************************)
\* rules created in one behaviour of the store specification
MaxRules == 2
\* entries a symbol's price history may hold when an operation starts
MaxHist == 2

(***************************************************************************)
(* Optional values                                                         *)
(***************************************************************************)
Undefined == <<>>

Some(v) == <<v>>

IsDefined(o) == o # <<>>

\* o ?? d
OrElse(o, d) == IF o = <<>> THEN d ELSE o[1]

(***************************************************************************)
(* JavaScript numbers: exact rationals, NaN and the infinities             *)
(***************************************************************************)
Abs(i) == IF i < 0 THEN 0 - i ELSE i

Sign(i) == IF i < 0 THEN 0 - 1 ELSE IF i > 0 THEN 1 ELSE 0

Num(n, d) == [k |-> "num", n |-> n, d |-> d]

NaN == [k |-> "nan", n |-> 0, d |-> 1]

Inf(s) == [k |-> "inf", n |-> s, d |-> 1]

ToNum(i) == Num(i, 1)

RECURSIVE Gcd(_, _)
Gcd(a, b) == IF b = 0 THEN a ELSE Gcd(b, a % b)

\* a rational in lowest terms with a positive denominator
Norm(n, d) ==
  LET g == Gcd(Abs(n), Abs(d))
  IN  Num(Sign(d) * (n \div g), Abs(d) \div g)

\* x / y
JsDiv(x, y) ==
  IF x.k = "nan" \/ y.k = "nan" THEN NaN
  ELSE IF x.k = "inf" THEN
         IF y.k = "inf" THEN NaN
         ELSE Inf(IF y.n < 0 THEN 0 - x.n ELSE x.n)
  ELSE IF y.k = "inf" THEN Num(0, 1)
  ELSE IF y.n = 0 THEN
         IF x.n = 0 THEN NaN ELSE Inf(Sign(x.n))
  ELSE Norm(x.n * y.d, x.d * y.n)

\* x * y, for finite x and y
JsMul(x, y) ==
  IF x.k = "nan" \/ y.k = "nan" THEN NaN
  ELSE IF x.k = "inf" \/ y.k = "inf" THEN
         IF x.n = 0 \/ y.n = 0 THEN NaN ELSE Inf(Sign(x.n) * Sign(y.n))
  ELSE Norm(x.n * y.n, x.d * y.d)

\* x + y and x - y, for finite x and y
JsAdd(x, y) ==
  IF x.k # "num" \/ y.k # "num" THEN NaN
  ELSE Norm(x.n * y.d + y.n * x.d, x.d * y.d)

JsSub(x, y) ==
  IF x.k # "num" \/ y.k # "num" THEN NaN
  ELSE Norm(x.n * y.d - y.n * x.d, x.d * y.d)

\* x > y
JsGt(x, y) ==
  IF x.k = "nan" \/ y.k = "nan" THEN FALSE
  ELSE IF x.k = "inf" THEN x.n > 0 /\ ~(y.k = "inf" /\ y.n > 0)
  ELSE IF y.k = "inf" THEN y.n < 0
  ELSE x.n * y.d > y.n * x.d

\* x < y
JsLt(x, y) == JsGt(y, x)

\* x >= y
JsGe(x, y) ==
  IF x.k = "nan" \/ y.k = "nan" THEN FALSE
  ELSE IF x.k = "inf" THEN x.n > 0 \/ (y.k = "inf" /\ y.n < 0)
  ELSE IF y.k = "inf" THEN y.n < 0
  ELSE x.n * y.d >= y.n * x.d

\* the truthiness of a number: neither 0 nor NaN
Truthy(x) == x.k = "inf" \/ (x.k = "num" /\ x.n # 0)

(***************************************************************************)
(* NotificationService (singleton)                                         *)
(***************************************************************************)
\* what one call into the service produced
NoFx == [visuals |-> 0, tones |-> <<>>, calls |-> 0]

FxJoin(a, b) ==
  [visuals |-> a.visuals + b.visuals,
   tones   |-> a.tones \o b.tones,
   calls   |-> a.calls + b.calls]

\* showNotification, had it not looked at the permission
ShowNotificationBody_Always(svc) == [visuals |-> 1, tones |-> <<>>, calls |-> 0]

ShowNotificationBody(svc) ==
  IF svc.notificationPermission # "granted"
  THEN NoFx
  ELSE [visuals |-> 1, tones |-> <<>>, calls |-> 0]

PlayAlertSoundBody(svc, type) ==
  IF ~svc.soundEnabled \/ ~svc.audioContext
  THEN NoFx
  ELSE [visuals |-> 0, tones |-> <<type>>, calls |-> 0]

Called(fx) == [fx EXCEPT !.calls = @ + 1]

ShowNotification(svc) == Called(ShowNotificationBody(svc))

PlayAlertSound(svc, type) == Called(PlayAlertSoundBody(svc, type))

ShowPriceAlert(svc, type) ==
  Called(FxJoin(ShowNotificationBody(svc),
                PlayAlertSoundBody(svc, IF type = "above" THEN "success" ELSE "warning")))

ShowTechnicalAlert(svc, priority) ==
  Called(FxJoin(ShowNotificationBody(svc),
                PlayAlertSoundBody(svc, IF priority = "high" THEN "warning" ELSE "info")))

TestNotification(svc) ==
  Called(FxJoin(ShowNotificationBody(svc), PlayAlertSoundBody(svc, "info")))

SetSoundEnabled(svc, enabled) == [svc EXCEPT !.soundEnabled = enabled]

\* requestNotificationPermission: svc.permission is the browser's
\* Notification.permission, svc.prompts counts the calls of
\* Notification.requestPermission, and answer is what the user answers
RequestNotificationPermission(svc, answer) ==
  IF svc.permission = "granted"
  THEN [svc EXCEPT !.notificationPermission = "granted"]
  ELSE IF svc.permission # "denied"
  THEN [svc EXCEPT !.permission = answer,
                   !.notificationPermission = answer,
                   !.prompts = @ + 1]
  ELSE svc

(***************************************************************************)
(* alertTriggers: the evaluators                                           *)
(***************************************************************************)
SoundType(priority) ==
  IF priority = "critical" THEN "critical"
  ELSE IF priority = "high" THEN "warning" ELSE "info"

\* the outcome of an evaluator: the returned value, the rule after the call (the
\* trigger functions mutate it in place), and what the service did
NotFired(alert) == [ret |-> FALSE, alert |-> alert, fx |-> NoFx]

Fired(alert, fx) == [ret |-> TRUE, alert |-> alert, fx |-> fx]

\* triggerPriceAlert
TriggerPriceAlert(alert, priceData, svc, now) ==
  Fired([alert EXCEPT
           !.metadata = Some([currentPrice  |-> priceData.price,
                              triggerPrice  |-> alert.condition.value,
                              percentChange |-> priceData.changePercent]),
           !.isTriggered = TRUE,
           !.triggeredAt = Some(now)],
        FxJoin(IF alert.notificationSettings.browser
               THEN IF alert.type \in {"price_above", "price_below"}
                    THEN ShowPriceAlert(svc, IF alert.type = "price_above"
                                              THEN "above" ELSE "below")
                    ELSE ShowNotification(svc)
               ELSE NoFx,
               IF alert.notificationSettings.sound
               THEN PlayAlertSound(svc, SoundType(alert.priority))
               ELSE NoFx))

\* the switch of checkPriceAlert with >= and <= in its price comparisons
PriceShouldTrigger_NonStrict(alert, priceData) ==
  CASE alert.type = "price_above" -> priceData.price >= alert.condition.value
    [] alert.type = "price_below" -> priceData.price <= alert.condition.value
    [] alert.type = "percent_change" ->
         IF alert.condition.operator = "greater_than"
         THEN Abs(priceData.changePercent) > alert.condition.value
         ELSE Abs(priceData.changePercent) < alert.condition.value
    [] alert.type = "volume_spike" ->
         JsGe(JsDiv(ToNum(priceData.volume),
                    JsDiv(ToNum(priceData.volume), ToNum(alert.condition.value))),
              ToNum(alert.condition.value))
    [] OTHER -> FALSE

\* the switch of checkPriceAlert
PriceShouldTrigger(alert, priceData) ==
  LET value == alert.condition.value
  IN  CASE alert.type = "price_above" -> priceData.price > value
        [] alert.type = "price_below" -> priceData.price < value
        [] alert.type = "percent_change" ->
             IF alert.condition.operator = "greater_than"
             THEN Abs(priceData.changePercent) > value
             ELSE Abs(priceData.changePercent) < value
        [] alert.type = "volume_spike" ->
             JsGe(JsDiv(ToNum(priceData.volume),
                        JsDiv(ToNum(priceData.volume), ToNum(value))),
                  ToNum(value))
        [] OTHER -> FALSE

\* checkPriceAlert without the test of isTriggered in its first guard
CheckPriceAlert_NoLatch(alert, priceData, svc, now) ==
  IF ~alert.isActive THEN NotFired(alert)
  ELSE IF alert.symbol # priceData.symbol THEN NotFired(alert)
  ELSE IF PriceShouldTrigger(alert, priceData)
  THEN TriggerPriceAlert(alert, priceData, svc, now)
  ELSE NotFired(alert)

\* checkPriceAlert
CheckPriceAlert(alert, priceData, svc, now) ==
  IF ~alert.isActive \/ alert.isTriggered THEN NotFired(alert)
  ELSE IF alert.symbol # priceData.symbol THEN NotFired(alert)
  ELSE IF PriceShouldTrigger(alert, priceData)
  THEN TriggerPriceAlert(alert, priceData, svc, now)
  ELSE NotFired(alert)

\* triggerTechnicalAlert
TriggerTechnicalAlert(alert, svc, now) ==
  Fired([alert EXCEPT !.isTriggered = TRUE, !.triggeredAt = Some(now)],
        FxJoin(IF alert.notificationSettings.browser
               THEN ShowTechnicalAlert(svc, alert.priority)
               ELSE NoFx,
               IF alert.notificationSettings.sound
               THEN PlayAlertSound(svc, SoundType(alert.priority))
               ELSE NoFx))

\* the switch of checkTechnicalAlert with >= and <= in its RSI comparisons
TechnicalShouldTrigger_RsiInclusive(alert, technicalData) ==
  CASE alert.type = "rsi_overbought" ->
         JsGe(OrElse(technicalData.rsi, ToNum(50)),
              ToNum(OrElse(alert.parameters.rsiLevel, 70)))
    [] alert.type = "rsi_oversold" ->
         JsGe(ToNum(OrElse(alert.parameters.rsiLevel, 30)),
              OrElse(technicalData.rsi, ToNum(50)))
    [] alert.type = "support_break" ->
         JsGt(OrElse(technicalData.supportLevel, ToNum(0)), ToNum(0))
    [] alert.type = "resistance_break" ->
         JsGt(OrElse(technicalData.resistanceLevel, ToNum(0)), ToNum(0))
    [] alert.type = "macd_crossover" ->
         IF IsDefined(technicalData.macd)
         THEN JsGt(technicalData.macd[1].macd, technicalData.macd[1].signal)
         ELSE FALSE
    [] alert.type = "volume_breakout" ->
         IF /\ IsDefined(technicalData.volume)
            /\ IsDefined(technicalData.averageVolume)
            /\ Truthy(technicalData.volume[1])
            /\ Truthy(technicalData.averageVolume[1])
         THEN JsGe(JsDiv(technicalData.volume[1], technicalData.averageVolume[1]),
                   ToNum(OrElse(alert.parameters.volumeMultiplier, 2)))
         ELSE FALSE
    [] OTHER -> FALSE

\* the switch of checkTechnicalAlert with a level break firing on any level
\* that is present
TechnicalShouldTrigger_LevelPresent(alert, technicalData) ==
  CASE alert.type = "rsi_overbought" ->
         JsGt(OrElse(technicalData.rsi, ToNum(50)),
              ToNum(OrElse(alert.parameters.rsiLevel, 70)))
    [] alert.type = "rsi_oversold" ->
         JsLt(OrElse(technicalData.rsi, ToNum(50)),
              ToNum(OrElse(alert.parameters.rsiLevel, 30)))
    [] alert.type = "support_break" -> IsDefined(technicalData.supportLevel)
    [] alert.type = "resistance_break" -> IsDefined(technicalData.resistanceLevel)
    [] alert.type = "macd_crossover" ->
         IF IsDefined(technicalData.macd)
         THEN JsGt(technicalData.macd[1].macd, technicalData.macd[1].signal)
         ELSE FALSE
    [] alert.type = "volume_breakout" ->
         IF /\ IsDefined(technicalData.volume)
            /\ IsDefined(technicalData.averageVolume)
            /\ Truthy(technicalData.volume[1])
            /\ Truthy(technicalData.averageVolume[1])
         THEN JsGe(JsDiv(technicalData.volume[1], technicalData.averageVolume[1]),
                   ToNum(OrElse(alert.parameters.volumeMultiplier, 2)))
         ELSE FALSE
    [] OTHER -> FALSE

\* the switch of checkTechnicalAlert
TechnicalShouldTrigger(alert, technicalData) ==
  LET parameters == alert.parameters
  IN  CASE alert.type = "rsi_overbought" ->
             JsGt(OrElse(technicalData.rsi, ToNum(50)),
                  ToNum(OrElse(parameters.rsiLevel, 70)))
        [] alert.type = "rsi_oversold" ->
             JsLt(OrElse(technicalData.rsi, ToNum(50)),
                  ToNum(OrElse(parameters.rsiLevel, 30)))
        [] alert.type = "macd_crossover" ->
             IF IsDefined(technicalData.macd)
             THEN JsGt(technicalData.macd[1].macd, technicalData.macd[1].signal)
             ELSE FALSE
        [] alert.type = "support_break" ->
             JsGt(OrElse(technicalData.supportLevel, ToNum(0)), ToNum(0))
        [] alert.type = "resistance_break" ->
             JsGt(OrElse(technicalData.resistanceLevel, ToNum(0)), ToNum(0))
        [] alert.type = "volume_breakout" ->
             IF /\ IsDefined(technicalData.volume)
                /\ IsDefined(technicalData.averageVolume)
                /\ Truthy(technicalData.volume[1])
                /\ Truthy(technicalData.averageVolume[1])
             THEN JsGe(JsDiv(technicalData.volume[1], technicalData.averageVolume[1]),
                       ToNum(OrElse(parameters.volumeMultiplier, 2)))
             ELSE FALSE
        [] OTHER -> FALSE

\* checkTechnicalAlert
CheckTechnicalAlert(alert, technicalData, svc, now) ==
  IF ~alert.isActive \/ alert.isTriggered THEN NotFired(alert)
  ELSE IF TechnicalShouldTrigger(alert, technicalData)
  THEN TriggerTechnicalAlert(alert, svc, now)
  ELSE NotFired(alert)

\* createAlertNotification
\* createAlertNotification, had it created the notification as read
CreateAlertNotification_Read(alertId, title, message, type, priority, now, rand, seq) ==
  [id        |-> <<"notification", now, rand>>,
   alertId   |-> alertId,
   title     |-> title,
   message   |-> message,
   type      |-> type,
   priority  |-> priority,
   timestamp |-> now,
   isRead    |-> TRUE,
   seq       |-> seq]

CreateAlertNotification(alertId, title, message, type, priority, now, rand, seq) ==
  [id        |-> <<"notification", now, rand>>,
   alertId   |-> alertId,
   title     |-> title,
   message   |-> message,
   type      |-> type,
   priority  |-> priority,
   timestamp |-> now,
   isRead    |-> FALSE,
   seq       |-> seq]


(***************************************************************************)
(* useAlerts: the state of one store                                       *)
(***************************************************************************)
VARIABLES
  alerts,          \* the AlertState held by useState
  realTimePrices,  \* the feed's record, as the sequence of its values in key order
  priceHistory,    \* priceHistoryRef.current
  svc,             \* the notification service singleton, with the browser's
                   \* Notification.permission it reads
  storage,         \* localStorage under the key 'smartAlerts': <<>> or <<blob>>
  now,             \* the clock read by Date.now() and new Date()
  due,             \* the passive effects React has yet to run
  nextUid,         \* history: number of the next rule instance
  nextSeq,         \* history: number of the next notification
  fireCount,       \* history: rule instance -> times its trigger function ran
  last,            \* history: what the last step fired, had the service do, or ticked
  ev               \* a direct call of an evaluator: its arguments and its outcome

vars == <<alerts, realTimePrices, priceHistory, svc, storage, now, due,
          nextUid, nextSeq, fireCount, last, ev>>

Symbols == {"AAPL", "MSFT"}

RandVals == {0, 1}

DefaultMaxNotifications == 50

HistoryCap == 100

RsiMinPrices == 15

DefaultAlerts ==
  [priceAlerts     |-> <<>>,
   technicalAlerts |-> <<>>,
   newsAlerts      |-> <<>>,
   notifications   |-> <<>>,
   settings        |-> [browserNotifications |-> TRUE,
                        soundEnabled         |-> TRUE,
                        emailNotifications   |-> FALSE,
                        maxNotifications     |-> DefaultMaxNotifications]]

NoneDue == [save |-> FALSE, monitor |-> FALSE]

Idle == due = NoneDue

NoEv == [kind |-> "none"]

(***************************************************************************)
(* Sequence helpers                                                        *)
(***************************************************************************)
Min(a, b) == IF a < b THEN a ELSE b

Max(a, b) == IF a > b THEN a ELSE b

\* Array.prototype.slice(0, end)
SliceTo(s, end) ==
  LET e == IF end < 0 THEN Max(Len(s) + end, 0) ELSE Min(end, Len(s))
  IN  SubSeq(s, 1, e)

\* Array.prototype.slice(-n), n > 0
SliceLast(s, n) == SubSeq(s, Max(Len(s) - n, 0) + 1, Len(s))

\* Array.prototype.map
MapSeq(s, F(_)) == [i \in 1..Len(s) |-> F(s[i])]

\* Array.prototype.filter
FilterSeq(s, P(_)) ==
  LET F[i \in 0..Len(s)] ==
        IF i = 0 THEN <<>>
        ELSE IF P(s[i]) THEN Append(F[i - 1], s[i]) ELSE F[i - 1]
  IN  F[Len(s)]

\* F applied to the value of e, with e evaluated once
Bind(e, F(_)) == CHOOSE r \in {F(x) : x \in {e}} : TRUE

RECURSIVE SumSeq(_)
SumSeq(s) == IF s = <<>> THEN 0 ELSE Head(s) + SumSeq(Tail(s))

(***************************************************************************)
(* calculateSimpleRSI                                                      *)
(***************************************************************************)
\* xs.length > 0 ? xs.reduce((a, b) => a + b, 0) / xs.length : 0
Average(xs) == IF Len(xs) > 0 THEN Norm(SumSeq(xs), Len(xs)) ELSE ToNum(0)

\* the changes between consecutive prices
Changes(prices) == [i \in 1..(Len(prices) - 1) |-> prices[i + 1] - prices[i]]

\* the last two statements of calculateSimpleRSI
RsiOf(avgGain, avgLoss) ==
  IF avgLoss.n = 0 THEN ToNum(100)
  ELSE JsSub(ToNum(100),
             JsDiv(ToNum(100), JsAdd(ToNum(1), JsDiv(avgGain, avgLoss))))

CalculateSimpleRSI(prices) ==
  IF Len(prices) < RsiMinPrices THEN ToNum(50)
  ELSE RsiOf(Average(FilterSeq(Changes(prices), LAMBDA c : c > 0)),
             Average(MapSeq(FilterSeq(Changes(prices), LAMBDA c : c < 0), Abs)))

(***************************************************************************)
(* JSON values and texts                                                   *)
(***************************************************************************)
\* a property that is not there: reading it gives undefined
JMissing == [t |-> "missing"]

JNull == [t |-> "null"]

JNumber == [t |-> "number"]

JArray(items) == [t |-> "array", items |-> items]

JObject(fields) == [t |-> "object", fields |-> fields]

\* the properties of an AlertState that hold lists
ListKeys == {"priceAlerts", "technicalAlerts", "newsAlerts", "notifications"}

\* the texts localStorage can hold: the empty string, a text JSON.parse rejects,
\* or the text of a JSON value
EmptyText == [text |-> "empty"]

InvalidText == [text |-> "invalid"]

JSONText(value) == [text |-> "json", value |-> value]

(***************************************************************************)
(* The save effect: JSON.stringify(alerts)                                 *)
(***************************************************************************)
\* Date.prototype.toJSON
DateToJSON(d) == <<"ISO", d>>

\* JSON.stringify leaves out the properties whose value is undefined
Defined(a, optional) == {k \in DOMAIN a : k \in optional => IsDefined(a[k])}

RuleToJSON(a) ==
  [k \in Defined(a, {"triggeredAt", "metadata"}) |->
     CASE k = "createdAt" -> DateToJSON(a[k])
       [] k = "triggeredAt" -> DateToJSON(a[k][1])
       [] k = "metadata" -> a[k][1]
       [] OTHER -> a[k]]

NewsToJSON(a) == [a EXCEPT !.createdAt = DateToJSON(@)]

NotificationToJSON(n) == [n EXCEPT !.timestamp = DateToJSON(@)]

Serialize(a) ==
  JSONText(JObject([priceAlerts     |-> JArray(MapSeq(a.priceAlerts, RuleToJSON)),
                    technicalAlerts |-> JArray(MapSeq(a.technicalAlerts, RuleToJSON)),
                    newsAlerts      |-> JArray(MapSeq(a.newsAlerts, NewsToJSON)),
                    notifications   |-> JArray(MapSeq(a.notifications,
                                                      NotificationToJSON)),
                    settings        |-> JObject(a.settings)]))

(***************************************************************************)
(* The load effect                                                         *)
(***************************************************************************)
\* new Date(isoString)
NewDate(j) == j[2]

\* the properties of a parsed rule, each optional one read as undefined when it
\* is not there
Restored(j, optional) ==
  [k \in DOMAIN j \cup optional |->
     IF k \in optional
     THEN IF k \in DOMAIN j THEN Some(j[k]) ELSE Undefined
     ELSE j[k]]

\* the callback of parsed.priceAlerts.map, had it not restored the trigger time
RevivePriceAlert_NoTriggeredAt(alert) ==
  [Restored(alert, {"triggeredAt", "metadata"}) EXCEPT
     !.createdAt = NewDate(@),
     !.triggeredAt = Undefined]

\* the callback of parsed.priceAlerts.map
RevivePriceAlert(alert) ==
  [Restored(alert, {"triggeredAt", "metadata"}) EXCEPT
     !.createdAt = NewDate(@),
     !.triggeredAt = IF IsDefined(@) THEN Some(NewDate(@[1])) ELSE Undefined]

\* the callback of parsed.technicalAlerts.map
ReviveTechnicalAlert(alert) ==
  [Restored(alert, {"triggeredAt"}) EXCEPT
     !.createdAt = NewDate(@),
     !.triggeredAt = IF IsDefined(@) THEN Some(NewDate(@[1])) ELSE Undefined]

\* the callback of parsed.newsAlerts.map
ReviveNewsAlert(alert) == [alert EXCEPT !.createdAt = NewDate(@)]

\* the callback of parsed.notifications.map
ReviveNotification(notification) == [notification EXCEPT !.timestamp = NewDate(@)]

\* parsed.key of a parsed value that is not null
Prop(parsed, key) ==
  IF parsed.t = "object" THEN parsed.fields[key] ELSE JMissing

\* parsed.key?.map(...) throws a TypeError: the value is there and has no map
MapThrows(value) == value.t \notin {"missing", "null", "array"}

\* parsed.key?.map(...) || [], with the mapped items given
MappedOrEmpty(value, mapped) == IF value.t = "array" THEN mapped ELSE <<>>

\* the updater of the load effect throws: parsed is null, or a list is no array
LoadThrows(parsed) ==
  \/ parsed.t = "null"
  \/ \E key \in ListKeys : MapThrows(Prop(parsed, key))

\* the state the updater of the load effect returns when it does not throw
Loaded(prev, parsed) ==
  [priceAlerts     |-> MappedOrEmpty(Prop(parsed, "priceAlerts"),
                                     MapSeq(Prop(parsed, "priceAlerts").items,
                                            RevivePriceAlert)),
   technicalAlerts |-> MappedOrEmpty(Prop(parsed, "technicalAlerts"),
                                     MapSeq(Prop(parsed, "technicalAlerts").items,
                                            ReviveTechnicalAlert)),
   newsAlerts      |-> MappedOrEmpty(Prop(parsed, "newsAlerts"),
                                     MapSeq(Prop(parsed, "newsAlerts").items,
                                            ReviveNewsAlert)),
   notifications   |-> MappedOrEmpty(Prop(parsed, "notifications"),
                                     MapSeq(Prop(parsed, "notifications").items,
                                            ReviveNotification)),
   settings        |-> IF Prop(parsed, "settings").t = "object"
                       THEN Prop(parsed, "settings").fields
                       ELSE prev.settings]

\* the load effect and the render of the update it queued: whether setAlerts was
\* called, whether its updater threw, and the state afterwards
NotLoaded(prev) == [called |-> FALSE, threw |-> FALSE, alerts |-> prev]

LoadEffect(prev, savedAlerts) ==
  IF savedAlerts = <<>> THEN NotLoaded(prev)
  ELSE IF savedAlerts[1].text # "json" THEN NotLoaded(prev)
  ELSE IF LoadThrows(savedAlerts[1].value)
  THEN [called |-> TRUE, threw |-> TRUE, alerts |-> prev]
  ELSE [called |-> TRUE, threw |-> FALSE,
        alerts |-> Loaded(prev, savedAlerts[1].value)]

(***************************************************************************)
(* The monitoring effect                                                   *)
(***************************************************************************)
\* priceHistoryRef.current[symbol].push(price), then the cut to the last 100
PushHistory(history, symbol, price) ==
  LET pushed == Append(history[symbol], price)
  IN  [history EXCEPT ![symbol] = IF Len(pushed) > HistoryCap
                                  THEN SliceLast(pushed, HistoryCap)
                                  ELSE pushed]

\* realTimePrice.volume * 0.8, the only average volume the program computes
AverageVolume(realTimePrice) == JsMul(ToNum(realTimePrice.volume), Num(4, 5))

\* the technical snapshot the effect hands to checkTechnicalAlert
TechnicalDataOf(history, realTimePrice) ==
  [rsi             |-> Some(CalculateSimpleRSI(history[realTimePrice.symbol])),
   macd            |-> Undefined,
   volume          |-> Some(ToNum(realTimePrice.volume)),
   averageVolume   |-> Some(AverageVolume(realTimePrice)),
   supportLevel    |-> Undefined,
   resistanceLevel |-> Undefined]

\* the updater the effect queues for a firing, and the firing's record
Queued(acc, kind, alert, title, r, time, rand, seq) ==
  [acc EXCEPT
     !.queue = Append(@, [kind |-> kind, id |-> alert.id,
                          notification |->
                            CreateAlertNotification(alert.id, <<alert.symbol, title>>,
                                                    alert.message, kind, alert.priority,
                                                    time, rand, seq)]),
     !.fired = Append(@, [uid |-> alert.uid, kind |-> kind, fx |-> r.fx, seq |-> seq])]

\* what the price loop's body does with the outcome r of checkPriceAlert
OnPriceChecked(acc, i, r, time, rs, seq0) ==
  IF r.ret
  THEN Queued([acc EXCEPT !.priceAlerts[i] = r.alert], "price", acc.priceAlerts[i],
              "Price Alert", r, time, rs[Len(acc.queue) + 1], seq0 + Len(acc.queue))
  ELSE acc

\* what the technical loop's body does with the outcome r of checkTechnicalAlert
OnTechnicalChecked(acc, i, r, time, rs, seq0) ==
  IF r.ret
  THEN Queued([acc EXCEPT !.technicalAlerts[i] = r.alert], "technical",
              acc.technicalAlerts[i], "Technical Alert", r, time,
              rs[Len(acc.queue) + 1], seq0 + Len(acc.queue))
  ELSE acc

\* the body of alerts.priceAlerts.forEach, had the loop stopped at the first firing
EvalPriceAt_EarlyExit(acc, rtp, i, service, time, rs, seq0) ==
  IF /\ acc.queue = <<>>
     /\ acc.priceAlerts[i].symbol = rtp.symbol /\ acc.priceAlerts[i].isActive
  THEN OnPriceChecked(acc, i, CheckPriceAlert(acc.priceAlerts[i], rtp, service, time),
                      time, rs, seq0)
  ELSE acc

\* the body of alerts.priceAlerts.forEach for the rule at index i
EvalPriceAt(acc, rtp, i, service, time, rs, seq0) ==
  IF acc.priceAlerts[i].symbol = rtp.symbol /\ acc.priceAlerts[i].isActive
  THEN OnPriceChecked(acc, i, CheckPriceAlert(acc.priceAlerts[i], rtp, service, time),
                      time, rs, seq0)
  ELSE acc

\* the body of alerts.technicalAlerts.forEach for the rule at index i
EvalTechnicalAt(acc, rtp, technicalData, i, service, time, rs, seq0) ==
  IF acc.technicalAlerts[i].symbol = rtp.symbol /\ acc.technicalAlerts[i].isActive
  THEN OnTechnicalChecked(acc, i,
                          CheckTechnicalAlert(acc.technicalAlerts[i], technicalData,
                                              service, time),
                          time, rs, seq0)
  ELSE acc

\* alerts.priceAlerts.forEach over the first i rules
RECURSIVE PriceLoop(_, _, _, _, _, _, _)
PriceLoop(acc, rtp, i, service, time, rs, seq0) ==
  IF i = 0 THEN acc
  ELSE Bind(PriceLoop(acc, rtp, i - 1, service, time, rs, seq0),
            LAMBDA done : EvalPriceAt(done, rtp, i, service, time, rs, seq0))

\* alerts.technicalAlerts.forEach over the first i rules
RECURSIVE TechnicalLoop(_, _, _, _, _, _, _, _)
TechnicalLoop(acc, rtp, technicalData, i, service, time, rs, seq0) ==
  IF i = 0 THEN acc
  ELSE Bind(TechnicalLoop(acc, rtp, technicalData, i - 1, service, time, rs, seq0),
            LAMBDA done : EvalTechnicalAt(done, rtp, technicalData, i, service,
                                          time, rs, seq0))

\* the technical half of the body: the snapshot, then the loop
MonitorTechnical(acc, rtp, service, time, rs, seq0) ==
  Bind(TechnicalDataOf(acc.history, rtp),
       LAMBDA technicalData :
         TechnicalLoop(acc, rtp, technicalData, Len(acc.technicalAlerts),
                       service, time, rs, seq0))

\* the body of Object.values(realTimePrices).forEach for one value
MonitorOne(acc, rtp, service, time, rs, seq0) ==
  Bind(PriceLoop([acc EXCEPT !.history = PushHistory(@, rtp.symbol, rtp.price)],
                 rtp, Len(acc.priceAlerts), service, time, rs, seq0),
       LAMBDA priced : MonitorTechnical(priced, rtp, service, time, rs, seq0))

\* Object.values(realTimePrices).forEach over the first j values
RECURSIVE ValuesLoop(_, _, _, _, _, _, _)
ValuesLoop(acc, prices, j, service, time, rs, seq0) ==
  IF j = 0 THEN acc
  ELSE Bind(ValuesLoop(acc, prices, j - 1, service, time, rs, seq0),
            LAMBDA done : MonitorOne(done, prices[j], service, time, rs, seq0))

\* the notifications after one queued update, had the cut kept the oldest
\* notifications instead of the newest
Prepended_KeepsOldest(prev, notification) ==
  <<notification>>
    \o IF prev.settings.maxNotifications - 1 > 0
       THEN SliceLast(prev.notifications, prev.settings.maxNotifications - 1)
       ELSE <<>>

\* the notifications after one queued update: the new one, then the kept ones
Prepended(prev, notification) ==
  <<notification>> \o SliceTo(prev.notifications, prev.settings.maxNotifications - 1)

\* one functional update queued by the effect, applied to the state prev
ApplyUpdate(prev, u, time) ==
  LET mark(a) == IF a.id = u.id
                 THEN [a EXCEPT !.isTriggered = TRUE, !.triggeredAt = Some(time)]
                 ELSE a
  IN  IF u.kind = "price"
      THEN [prev EXCEPT !.notifications = Prepended(prev, u.notification),
                        !.priceAlerts = MapSeq(prev.priceAlerts, mark)]
      ELSE [prev EXCEPT !.notifications = Prepended(prev, u.notification),
                        !.technicalAlerts = MapSeq(prev.technicalAlerts, mark)]

\* React applies the first j queued updates in order
RECURSIVE UpdateLoop(_, _, _, _)
UpdateLoop(prev, queue, j, time) ==
  IF j = 0 THEN prev
  ELSE Bind(UpdateLoop(prev, queue, j - 1, time),
            LAMBDA applied : ApplyUpdate(applied, queue[j], time))

\* the state after the loops ran (the rules mutated in place) and the queued
\* updates were applied
Settled(state, ran, time) ==
  [alerts  |-> UpdateLoop([state EXCEPT !.priceAlerts = ran.priceAlerts,
                                        !.technicalAlerts = ran.technicalAlerts],
                          ran.queue, Len(ran.queue), time),
   history |-> ran.history,
   fired   |-> ran.fired]

\* one run of the monitoring effect and of the updates it queued
MonitorEffect(state, prices, history, service, time, rs, seq0) ==
  Bind(ValuesLoop([priceAlerts     |-> state.priceAlerts,
                   technicalAlerts |-> state.technicalAlerts,
                   history         |-> history,
                   queue           |-> <<>>,
                   fired           |-> <<>>],
                  prices, Len(prices), service, time, rs, seq0),
       LAMBDA ran : Settled(state, ran, time))

(***************************************************************************)
(* Inputs of the store specification                                       *)
(***************************************************************************)
PriceDraft(symbol, type, value, operator, active, browser, sound) ==
  [symbol |-> symbol, type |-> type,
   condition |-> [value |-> value, operator |-> operator],
   isActive |-> active,
   notificationSettings |-> [browser |-> browser, sound |-> sound],
   message |-> "m", priority |-> "medium"]

TechnicalDraft(symbol, type, rsiLevel, volumeMultiplier, active, browser, sound) ==
  [symbol |-> symbol, type |-> type,
   parameters |-> [rsiLevel |-> rsiLevel, volumeMultiplier |-> volumeMultiplier],
   isActive |-> active,
   notificationSettings |-> [browser |-> browser, sound |-> sound],
   message |-> "m", priority |-> "medium"]

NewsDraft(symbol) ==
  [keywords |-> <<"k">>, symbols |-> <<symbol>>, sentiment |-> "any",
   isActive |-> TRUE,
   notificationSettings |-> [browser |-> TRUE, sound |-> TRUE],
   message |-> "m", priority |-> "medium"]

PriceTick(symbol, price, changePercent, volume) ==
  [symbol |-> symbol, price |-> price, changePercent |-> changePercent,
   volume |-> volume]

StorePriceDrafts ==
  {PriceDraft("AAPL", "price_above", 2, "greater_than", TRUE, TRUE, TRUE)}

StoreTechnicalDrafts ==
  {TechnicalDraft("AAPL", "rsi_overbought", Some(40), Undefined, TRUE, TRUE, FALSE)}

StoreNewsDrafts == {NewsDraft("AAPL")}

StoreTicks ==
  {PriceTick("AAPL", 1, 0, 1), PriceTick("AAPL", 3, 0, 1), PriceTick("MSFT", 3, 0, 1)}

NoPartial ==
  [browserNotifications |-> Undefined, soundEnabled |-> Undefined,
   emailNotifications |-> Undefined, maxNotifications |-> Undefined]

StoreSettingsUpdates ==
  {[NoPartial EXCEPT !.maxNotifications = Some(m)] : m \in 0..2}
    \cup {[NoPartial EXCEPT !.soundEnabled = Some(b)] : b \in BOOLEAN}

UnknownId == <<"none", 0, 0>>

AlertKinds == {"price", "technical", "news"}

IdsOf(list) == {list[i].id : i \in 1..Len(list)}

RuleIds == IdsOf(alerts.priceAlerts) \cup IdsOf(alerts.technicalAlerts)
             \cup IdsOf(alerts.newsAlerts) \cup {UnknownId}

NotificationIds == IdsOf(alerts.notifications) \cup {UnknownId}

\* the effects that follow a setAlerts, had the save effect no dependency on alerts
AfterSetAlerts_NoSave(rulesReplaced) == [save |-> FALSE, monitor |-> rulesReplaced]

\* the effects that follow a setAlerts: the save effect always, the monitoring
\* effect when the priceAlerts or technicalAlerts array was replaced
AfterSetAlerts(rulesReplaced) == [save |-> TRUE, monitor |-> rulesReplaced]

\* no price history has reached the bound
HistRoom == \A s \in Symbols : Len(priceHistory[s]) < MaxHist

NoLast == [fired |-> <<>>, fx |-> NoFx, tick |-> <<>>]

(***************************************************************************)
(* Initial state: the hook after its first render, the service constructed *)
(***************************************************************************)
Init ==
  /\ alerts = DefaultAlerts
  /\ realTimePrices = <<>>
  /\ priceHistory = [s \in Symbols |-> <<>>]
  /\ svc \in {[soundEnabled |-> TRUE, audioContext |-> TRUE,
               notificationPermission |-> p, permission |-> p, prompts |-> 0] :
                 p \in {"granted"}}
  /\ storage = <<>>
  /\ now = 0
  /\ due = [save |-> TRUE, monitor |-> TRUE]
  /\ nextUid = 1
  /\ nextSeq = 1
  /\ fireCount = [u \in {} |-> 0]
  /\ last = NoLast
  /\ ev = NoEv

(***************************************************************************)
(* The feed and React                                                      *)
(***************************************************************************)
\* setRealTimePrices(prev => ({...prev, ...updates})) with one updated symbol
MergeTick(prices, t) ==
  IF \E i \in 1..Len(prices) : prices[i].symbol = t.symbol
  THEN [i \in 1..Len(prices) |-> IF prices[i].symbol = t.symbol THEN t ELSE prices[i]]
  ELSE Append(prices, t)

Tick(t) ==
  /\ Idle
  /\ realTimePrices' = MergeTick(realTimePrices, t)
  /\ due' = [save |-> FALSE, monitor |-> TRUE]
  /\ last' = [NoLast EXCEPT !.tick = Some(t.symbol)]
  /\ UNCHANGED <<alerts, priceHistory, svc, storage, now, nextUid, nextSeq, fireCount, ev>>

\* the number of Math.random() draws the effects that are due will make
FiringsDue ==
  IF due.monitor
  THEN Len(MonitorEffect(alerts, realTimePrices, priceHistory, svc, now,
                         [i \in 1..(Len(alerts.priceAlerts) + Len(alerts.technicalAlerts))
                            |-> 0],
                         nextSeq).fired)
  ELSE 0

\* the monitoring effect ran with the outcome m
Monitored(m) ==
  /\ alerts' = m.alerts
  /\ priceHistory' = m.history
  /\ nextSeq' = nextSeq + Len(m.fired)
  /\ fireCount' = [u \in DOMAIN fireCount |->
                     fireCount[u]
                       + Cardinality({i \in 1..Len(m.fired) : m.fired[i].uid = u})]
  /\ last' = [NoLast EXCEPT !.fired = m.fired]
  /\ due' = [save |-> Len(m.fired) > 0, monitor |-> Len(m.fired) > 0]

\* React runs the effects that are due: the save effect, then the monitoring effect
RunEffects(rs) ==
  /\ ~Idle
  /\ storage' = IF due.save THEN Some(Serialize(alerts)) ELSE storage
  /\ IF due.monitor
     THEN \E m \in {MonitorEffect(alerts, realTimePrices, priceHistory, svc, now,
                                   rs, nextSeq)} : Monitored(m)
     ELSE /\ UNCHANGED <<alerts, priceHistory, nextSeq, fireCount>>
          /\ last' = NoLast
          /\ due' = NoneDue
  /\ UNCHANGED <<realTimePrices, svc, now, nextUid, ev>>

\* the clock advances
Tock ==
  /\ Idle
  /\ now' = now + 1
  /\ last' = NoLast
  /\ UNCHANGED <<alerts, realTimePrices, priceHistory, svc, storage, due,
                 nextUid, nextSeq, fireCount, ev>>

(***************************************************************************)
(* The operations of the hook                                              *)
(***************************************************************************)
SetAlerts(newAlerts, rulesReplaced) ==
  /\ alerts' = newAlerts
  /\ due' = AfterSetAlerts(rulesReplaced)
  /\ last' = NoLast

AddPriceAlert(alertData, rand) ==
  /\ Idle
  /\ LET newAlert == [uid |-> nextUid,
                      id |-> <<"price", now, rand>>,
                      symbol |-> alertData.symbol,
                      type |-> alertData.type,
                      condition |-> alertData.condition,
                      isActive |-> alertData.isActive,
                      isTriggered |-> FALSE,
                      createdAt |-> now,
                      triggeredAt |-> Undefined,
                      notificationSettings |-> alertData.notificationSettings,
                      message |-> alertData.message,
                      priority |-> alertData.priority,
                      metadata |-> Undefined]
     IN  SetAlerts([alerts EXCEPT !.priceAlerts = Append(@, newAlert)], TRUE)
  /\ nextUid' = nextUid + 1
  /\ fireCount' = [u \in DOMAIN fireCount \cup {nextUid} |->
                     IF u = nextUid THEN 0 ELSE fireCount[u]]
  /\ UNCHANGED <<realTimePrices, priceHistory, svc, storage, now, nextSeq, ev>>

AddTechnicalAlert(alertData, rand) ==
  /\ Idle
  /\ LET newAlert == [uid |-> nextUid,
                      id |-> <<"technical", now, rand>>,
                      symbol |-> alertData.symbol,
                      type |-> alertData.type,
                      parameters |-> alertData.parameters,
                      isActive |-> alertData.isActive,
                      isTriggered |-> FALSE,
                      createdAt |-> now,
                      triggeredAt |-> Undefined,
                      notificationSettings |-> alertData.notificationSettings,
                      message |-> alertData.message,
                      priority |-> alertData.priority]
     IN  SetAlerts([alerts EXCEPT !.technicalAlerts = Append(@, newAlert)], TRUE)
  /\ nextUid' = nextUid + 1
  /\ fireCount' = [u \in DOMAIN fireCount \cup {nextUid} |->
                     IF u = nextUid THEN 0 ELSE fireCount[u]]
  /\ UNCHANGED <<realTimePrices, priceHistory, svc, storage, now, nextSeq, ev>>

AddNewsAlert(alertData, rand) ==
  /\ Idle
  /\ LET newAlert == [uid |-> nextUid,
                      id |-> <<"news", now, rand>>,
                      keywords |-> alertData.keywords,
                      symbols |-> alertData.symbols,
                      sentiment |-> alertData.sentiment,
                      isActive |-> alertData.isActive,
                      createdAt |-> now,
                      notificationSettings |-> alertData.notificationSettings,
                      message |-> alertData.message,
                      priority |-> alertData.priority]
     IN  SetAlerts([alerts EXCEPT !.newsAlerts = Append(@, newAlert)], FALSE)
  /\ nextUid' = nextUid + 1
  /\ UNCHANGED <<realTimePrices, priceHistory, svc, storage, now, nextSeq,
                 fireCount, ev>>

\* the updater of deleteAlert, had it also dropped the notifications of the rule
Deleted_WithNotifications(prev, id, type) ==
  LET keep(a) == a.id # id
      kept(n) == n.alertId # id
  IN  CASE type = "price" ->
             [prev EXCEPT !.priceAlerts = FilterSeq(@, keep),
                          !.notifications = FilterSeq(@, kept)]
        [] type = "technical" ->
             [prev EXCEPT !.technicalAlerts = FilterSeq(@, keep),
                          !.notifications = FilterSeq(@, kept)]
        [] type = "news" ->
             [prev EXCEPT !.newsAlerts = FilterSeq(@, keep),
                          !.notifications = FilterSeq(@, kept)]
        [] OTHER -> prev

\* the updater deleteAlert hands to setAlerts
Deleted(prev, id, type) ==
  LET keep(a) == a.id # id
  IN  CASE type = "price" -> [prev EXCEPT !.priceAlerts = FilterSeq(@, keep)]
        [] type = "technical" -> [prev EXCEPT !.technicalAlerts = FilterSeq(@, keep)]
        [] type = "news" -> [prev EXCEPT !.newsAlerts = FilterSeq(@, keep)]
        [] OTHER -> prev

DeleteAlert(id, type) ==
  /\ Idle
  /\ SetAlerts(Deleted(alerts, id, type), type \in {"price", "technical"})
  /\ UNCHANGED <<realTimePrices, priceHistory, svc, storage, now, nextUid, nextSeq,
                 fireCount, ev>>

\* the updater of toggleAlert, had it set isActive instead of negating it
Toggled_SetsActive(prev, id, type) ==
  LET flip(a) == IF a.id = id THEN [a EXCEPT !.isActive = TRUE] ELSE a
  IN  CASE type = "price" -> [prev EXCEPT !.priceAlerts = MapSeq(@, flip)]
        [] type = "technical" -> [prev EXCEPT !.technicalAlerts = MapSeq(@, flip)]
        [] type = "news" -> [prev EXCEPT !.newsAlerts = MapSeq(@, flip)]
        [] OTHER -> prev

\* the updater toggleAlert hands to setAlerts
Toggled(prev, id, type) ==
  LET flip(a) == IF a.id = id THEN [a EXCEPT !.isActive = ~@] ELSE a
  IN  CASE type = "price" -> [prev EXCEPT !.priceAlerts = MapSeq(@, flip)]
        [] type = "technical" -> [prev EXCEPT !.technicalAlerts = MapSeq(@, flip)]
        [] type = "news" -> [prev EXCEPT !.newsAlerts = MapSeq(@, flip)]
        [] OTHER -> prev

ToggleAlert(id, type) ==
  /\ Idle
  /\ SetAlerts(Toggled(alerts, id, type), type \in {"price", "technical"})
  /\ UNCHANGED <<realTimePrices, priceHistory, svc, storage, now, nextUid, nextSeq,
                 fireCount, ev>>

\* the updater of clearTriggeredAlerts, had it cleared the price rules only
Cleared_PriceOnly(prev) ==
  LET untriggered(a) == ~a.isTriggered
  IN  [prev EXCEPT !.priceAlerts = FilterSeq(@, untriggered)]

\* the updater clearTriggeredAlerts hands to setAlerts
Cleared(prev) ==
  LET untriggered(a) == ~a.isTriggered
  IN  [prev EXCEPT !.priceAlerts = FilterSeq(@, untriggered),
                   !.technicalAlerts = FilterSeq(@, untriggered)]

ClearTriggeredAlerts ==
  /\ Idle
  /\ SetAlerts(Cleared(alerts), TRUE)
  /\ UNCHANGED <<realTimePrices, priceHistory, svc, storage, now, nextUid, nextSeq,
                 fireCount, ev>>

MarkNotificationAsRead(notificationId) ==
  /\ Idle
  /\ LET read(n) == IF n.id = notificationId THEN [n EXCEPT !.isRead = TRUE] ELSE n
     IN  SetAlerts([alerts EXCEPT !.notifications = MapSeq(@, read)], FALSE)
  /\ UNCHANGED <<realTimePrices, priceHistory, svc, storage, now, nextUid, nextSeq,
                 fireCount, ev>>

ClearAllNotifications ==
  /\ Idle
  /\ SetAlerts([alerts EXCEPT !.notifications = <<>>], FALSE)
  /\ UNCHANGED <<realTimePrices, priceHistory, svc, storage, now, nextUid, nextSeq,
                 fireCount, ev>>

TestAlert(rand) ==
  /\ Idle
  /\ LET testNotification ==
           CreateAlertNotification(<<"test">>, <<"Test Alert">>, "t", "system", "low",
                                   now, rand, nextSeq)
     IN  /\ alerts' = [alerts EXCEPT !.notifications = <<testNotification>> \o @]
         /\ due' = AfterSetAlerts(FALSE)
         /\ last' = [NoLast EXCEPT !.fx = TestNotification(svc)]
  /\ nextSeq' = nextSeq + 1
  /\ UNCHANGED <<realTimePrices, priceHistory, svc, storage, now, nextUid,
                 fireCount, ev>>

\* {...prev.settings, ...newSettings}
MergeSettings(settings, newSettings) ==
  [browserNotifications |-> OrElse(newSettings.browserNotifications,
                                   settings.browserNotifications),
   soundEnabled         |-> OrElse(newSettings.soundEnabled, settings.soundEnabled),
   emailNotifications   |-> OrElse(newSettings.emailNotifications,
                                   settings.emailNotifications),
   maxNotifications     |-> OrElse(newSettings.maxNotifications,
                                   settings.maxNotifications)]

UpdateSettings(newSettings) ==
  /\ Idle
  /\ SetAlerts([alerts EXCEPT !.settings = MergeSettings(@, newSettings)], FALSE)
  /\ svc' = IF IsDefined(newSettings.soundEnabled)
            THEN SetSoundEnabled(svc, newSettings.soundEnabled[1])
            ELSE svc
  /\ UNCHANGED <<realTimePrices, priceHistory, storage, now, nextUid, nextSeq,
                 fireCount, ev>>

(***************************************************************************)
(* The store specification: rules are created, toggled, deleted and        *)
(* cleared while ticks arrive                                              *)
(***************************************************************************)
RulesCreated == nextUid - 1

Next ==
  \/ HistRoom /\ \E t \in StoreTicks : Tick(t)
  \/ \E rs \in [1..FiringsDue -> RandVals] : RunEffects(rs)
  \/ /\ HistRoom /\ RulesCreated < MaxRules
     /\ \E d \in StorePriceDrafts, r \in RandVals : AddPriceAlert(d, r)
  \/ /\ HistRoom /\ RulesCreated < MaxRules
     /\ \E d \in StoreTechnicalDrafts, r \in RandVals : AddTechnicalAlert(d, r)
  \/ /\ RulesCreated < MaxRules
     /\ \E d \in StoreNewsDrafts, r \in RandVals : AddNewsAlert(d, r)
  \/ HistRoom /\ \E id \in RuleIds, type \in AlertKinds : DeleteAlert(id, type)
  \/ HistRoom /\ \E id \in RuleIds, type \in AlertKinds : ToggleAlert(id, type)
  \/ HistRoom /\ ClearTriggeredAlerts

Spec == Init /\ [][Next]_vars

(***************************************************************************)
(* Rule instances                                                          *)
(***************************************************************************)
\* the price and technical rules of an AlertState, each with its kind
RulesOf(a) ==
  {[kind |-> "price", rule |-> a.priceAlerts[i]] : i \in 1..Len(a.priceAlerts)}
    \cup {[kind |-> "technical", rule |-> a.technicalAlerts[i]] :
            i \in 1..Len(a.technicalAlerts)}

TriggeredUids(a) == {x.rule.uid : x \in {y \in RulesOf(a) : y.rule.isTriggered}}

FiredUids(l) == {l.fired[i].uid : i \in 1..Len(l.fired)}

\* a step of the feed, of toggleAlert or of the effects
TickStep == \E t \in StoreTicks : Tick(t)

ToggleStep == \E id \in RuleIds, type \in AlertKinds : ToggleAlert(id, type)

EffectsStep == ~Idle

Satisfied(a, prices, history) ==
  {x \in RulesOf(a) :
     /\ x.rule.isActive /\ ~x.rule.isTriggered
     /\ \E i \in 1..Len(prices) :
          /\ prices[i].symbol = x.rule.symbol
          /\ IF x.kind = "price"
             THEN PriceShouldTrigger(x.rule, prices[i])
             ELSE TechnicalShouldTrigger(x.rule, TechnicalDataOf(history, prices[i]))}

C8_NoEarlyExit ==
  [][(EffectsStep /\ due.monitor) =>
       LET sat == Satisfied(alerts, realTimePrices, priceHistory')
       IN  /\ \A x \in sat :
                /\ x.rule.uid \in TriggeredUids(alerts')
                /\ fireCount'[x.rule.uid] = fireCount[x.rule.uid] + 1
                /\ Cardinality({i \in 1..Len(last'.fired) :
                                  last'.fired[i].uid = x.rule.uid}) = 1
           /\ Len(last'.fired) = Cardinality(sat)
           /\ nextSeq' - nextSeq = Cardinality(sat)]_vars

\* one run has fired a price rule and a technical rule
C8_Witness ==
  /\ Len(last.fired) = 2
  /\ last.fired[1].kind = "price"
  /\ last.fired[2].kind = "technical"
  /\ {last.fired[1].uid, last.fired[2].uid} \subseteq TriggeredUids(alerts)

(***************************************************************************)
(* The price-rule specification: one price rule of any kind is created,    *)
(* through the creation form or through the hook, and ticks arrive         *)
(***************************************************************************)
\* thresholds range over 1..MaxValue, prices over 0..MaxValue + 1
MaxValue == 2

PriceTypes == {"price_above", "price_below", "percent_change", "volume_spike"}

\* handleCreatePriceAlert: the rule the creation form hands to addPriceAlert
FormPriceDraft(symbol, type, value) ==
  PriceDraft(symbol, type, value,
             IF type = "price_above" THEN "greater_than" ELSE "less_than",
             TRUE, TRUE, TRUE)

EvalPriceDrafts ==
  {FormPriceDraft("AAPL", type, v) : type \in PriceTypes, v \in 1..MaxValue}
    \cup {PriceDraft("AAPL", "percent_change", v, "greater_than", TRUE, TRUE, TRUE) :
            v \in 1..MaxValue}
    \cup {PriceDraft("AAPL", "price_above", 1, "greater_than", FALSE, TRUE, TRUE)}

\* ticks that vary the price, the percent change and the volume (volumes and
\* thresholds are chosen so that the divisions of checkPriceAlert are exact)
EvalTicks ==
  {PriceTick("AAPL", p, 0, 2) : p \in 0..(MaxValue + 1)}
    \cup {PriceTick("AAPL", 1, c, 2) : c \in (0 - MaxValue - 1)..(MaxValue + 1)}
    \cup {PriceTick("AAPL", 1, 0, v) : v \in {0, 4}}
    \cup {PriceTick("MSFT", MaxValue + 1, MaxValue + 1, 4)}

NextEval ==
  \/ HistRoom /\ \E t \in EvalTicks : Tick(t)
  \/ \E rs \in [1..FiringsDue -> {0}] : RunEffects(rs)
  \/ /\ alerts.priceAlerts = <<>>
     /\ \E d \in EvalPriceDrafts : AddPriceAlert(d, 0)

SpecEval == Init /\ [][NextEval]_vars

\* the feed's value for a symbol, when it has one
HasTick(symbol) == \E i \in 1..Len(realTimePrices) : realTimePrices[i].symbol = symbol

TickOf(symbol) ==
  realTimePrices[CHOOSE i \in 1..Len(realTimePrices) : realTimePrices[i].symbol = symbol]

\* the monitoring effect is about to evaluate the store's one price rule, of a
\* kind in types, and the rule passes the guards
PriceCase(types) ==
  /\ EffectsStep /\ due.monitor
  /\ Len(alerts.priceAlerts) = 1
  /\ alerts.priceAlerts[1].type \in types
  /\ alerts.priceAlerts[1].isActive /\ ~alerts.priceAlerts[1].isTriggered
  /\ HasTick(alerts.priceAlerts[1].symbol)

\* the step fired the store's one price rule
PriceFired == FiredUids(last') = {alerts.priceAlerts[1].uid}

(***************************************************************************)
(* C2: an active, untriggered price_above (price_below) rule whose symbol   *)
(* has a tick fires iff the tick's price is strictly above (below) the     *)
(* threshold.  When it fires, exactly one notification, of type 'price'    *)
(* and carrying the rule's id, is added and the rule is triggered; when it *)
(* does not, the notifications are unchanged and the rule stays            *)
(* untriggered.                                                            *)
(***************************************************************************)
C2_PriceCompare ==
  [][PriceCase({"price_above", "price_below"}) =>
       LET rule == alerts.priceAlerts[1]
           tick == TickOf(rule.symbol)
           met  == IF rule.type = "price_above"
                   THEN tick.price > rule.condition.value
                   ELSE tick.price < rule.condition.value
       IN  IF met
           THEN /\ PriceFired
                /\ Len(last'.fired) = 1
                /\ Len(alerts'.notifications) = Len(alerts.notifications) + 1
                /\ Tail(alerts'.notifications) = alerts.notifications
                /\ Head(alerts'.notifications).type = "price"
                /\ Head(alerts'.notifications).alertId = rule.id
                /\ alerts'.priceAlerts[1].isTriggered
           ELSE /\ last'.fired = <<>>
                /\ alerts'.notifications = alerts.notifications
                /\ ~alerts'.priceAlerts[1].isTriggered]_vars

\* a price_above rule has fired on a price above its threshold and holds its
\* one notification
C2_Witness ==
  /\ Len(alerts.priceAlerts) = 1
  /\ alerts.priceAlerts[1].type = "price_above"
  /\ alerts.priceAlerts[1].isTriggered
  /\ fireCount[alerts.priceAlerts[1].uid] = 1
  /\ HasTick("AAPL")
  /\ TickOf("AAPL").price = alerts.priceAlerts[1].condition.value + 1
  /\ Len(alerts.notifications) = 1
  /\ alerts.notifications[1].type = "price"
  /\ alerts.notifications[1].alertId = alerts.priceAlerts[1].id

(***************************************************************************)
(* C4: a percent_change rule that passes the guards fires iff the absolute *)
(* value of the tick's changePercent is greater than the threshold, for    *)
(* every percent_change rule the application can create.                   *)
(***************************************************************************)
C4_PercentChange ==
  [][PriceCase({"percent_change"}) =>
       (PriceFired <=>
          Abs(TickOf(alerts.priceAlerts[1].symbol).changePercent)
            > alerts.priceAlerts[1].condition.value)]_vars

(***************************************************************************)
(* C5: a volume_spike rule that passes the guards fires iff the tick's     *)
(* volume divided by the average volume is at least the rule's threshold.  *)
(***************************************************************************)
C5_VolumeSpike ==
  [][PriceCase({"volume_spike"}) =>
       (PriceFired <=>
          JsGe(JsDiv(ToNum(TickOf(alerts.priceAlerts[1].symbol).volume),
                     AverageVolume(TickOf(alerts.priceAlerts[1].symbol))),
               ToNum(alerts.priceAlerts[1].condition.value)))]_vars

(***************************************************************************)
(* The technical-evaluator specification: checkTechnicalAlert is called    *)
(* with a rule and a snapshot                                              *)
(***************************************************************************)
\* support and resistance levels range over -MaxLevel..MaxLevel
MaxLevel == 1

RsiSamples == {29, 30, 31, 50, 69, 70, 71}

TechRule(type, rsiLevel, active, triggered) ==
  [uid |-> 0,
   id |-> <<"technical", 0, 0>>,
   symbol |-> "AAPL",
   type |-> type,
   parameters |-> [rsiLevel |-> rsiLevel, volumeMultiplier |-> Undefined],
   isActive |-> active,
   isTriggered |-> triggered,
   createdAt |-> 0,
   triggeredAt |-> IF triggered THEN Some(0) ELSE Undefined,
   notificationSettings |-> [browser |-> TRUE, sound |-> TRUE],
   message |-> "m",
   priority |-> "medium"]

TechRules ==
  {TechRule(type, level, active, triggered) :
     type \in {"rsi_overbought", "rsi_oversold", "support_break", "resistance_break"},
     level \in {Undefined} \cup {Some(l) : l \in {30, 50, 70}},
     active \in BOOLEAN, triggered \in BOOLEAN}

TechSnapshot(rsi, supportLevel, resistanceLevel) ==
  [rsi             |-> rsi,
   macd            |-> Undefined,
   volume          |-> Undefined,
   averageVolume   |-> Undefined,
   supportLevel    |-> supportLevel,
   resistanceLevel |-> resistanceLevel]

Levels == {Undefined} \cup {Some(ToNum(l)) : l \in (0 - MaxLevel)..MaxLevel}

TechSnapshots ==
  {TechSnapshot(rsi, s, r) :
     rsi \in {Undefined} \cup {Some(ToNum(x)) : x \in RsiSamples},
     s \in Levels, r \in Levels}

\* checkTechnicalAlert(alert, technicalData)
CallCheckTechnicalAlert(alert, technicalData) ==
  /\ ev' = [kind  |-> "technical",
            alert |-> alert,
            data  |-> technicalData,
            out   |-> CheckTechnicalAlert(alert, technicalData, svc, now)]
  /\ UNCHANGED <<alerts, realTimePrices, priceHistory, svc, storage, now, due,
                 nextUid, nextSeq, fireCount, last>>

\* one call in each behaviour
NextTech ==
  /\ ev = NoEv
  /\ \E a \in TechRules, d \in TechSnapshots : CallCheckTechnicalAlert(a, d)

SpecTech == Init /\ [][NextTech]_vars

\* checkTechnicalAlert was called with an active, untriggered rule of a kind
\* in types
TechCase(types) ==
  /\ ev.kind = "technical"
  /\ ev.alert.isActive /\ ~ev.alert.isTriggered
  /\ ev.alert.type \in types

(***************************************************************************)
(* C6: an active, untriggered rsi_overbought rule fires iff the snapshot's *)
(* rsi is greater than the rule's rsiLevel (70 when absent), and an        *)
(* rsi_oversold rule iff the rsi is less than its rsiLevel (30 when        *)
(* absent); a snapshot without rsi counts as rsi 50, so a rule with the    *)
(* default level does not fire on it.                                      *)
(***************************************************************************)
C6_Rsi ==
  TechCase({"rsi_overbought", "rsi_oversold"}) =>
    LET rsi   == IF ev.data.rsi = <<>> THEN 50 ELSE ev.data.rsi[1].n
        level == ev.alert.parameters.rsiLevel
    IN  /\ ev.alert.type = "rsi_overbought" =>
             (ev.out.ret <=> rsi > (IF level = <<>> THEN 70 ELSE level[1]))
        /\ ev.alert.type = "rsi_oversold" =>
             (ev.out.ret <=> rsi < (IF level = <<>> THEN 30 ELSE level[1]))
        /\ (ev.data.rsi = <<>> /\ level = <<>>) => ~ev.out.ret
        /\ ev.out.ret <=> ev.out.alert.isTriggered

\* an rsi_overbought rule with the default level has fired on an rsi of 71
C6_Witness ==
  /\ TechCase({"rsi_overbought"})
  /\ ev.alert.parameters.rsiLevel = <<>>
  /\ ev.data.rsi = Some(ToNum(71))
  /\ ev.out.ret /\ ev.out.alert.isTriggered

(***************************************************************************)
(* C7 as stated: an active, untriggered support_break (resistance_break)   *)
(* rule fires iff the snapshot's supportLevel (resistanceLevel) is present *)
(* and nonzero.                                                            *)
(***************************************************************************)
C7_LevelNonzero ==
  /\ TechCase({"support_break"}) =>
       (ev.out.ret <=>
          (ev.data.supportLevel # <<>> /\ ev.data.supportLevel # Some(ToNum(0))))
  /\ TechCase({"resistance_break"}) =>
       (ev.out.ret <=>
          (ev.data.resistanceLevel # <<>> /\ ev.data.resistanceLevel # Some(ToNum(0))))

(***************************************************************************)
(* C7 as amended: an active, untriggered support_break (resistance_break)  *)
(* rule fires iff the snapshot's supportLevel (resistanceLevel) is present *)
(* and greater than zero; it does not fire when the level is absent, zero  *)
(* or negative.                                                            *)
(***************************************************************************)
C7_LevelPositive ==
  /\ TechCase({"support_break"}) =>
       (ev.out.ret <=> (ev.data.supportLevel # <<>> /\ ev.data.supportLevel[1].n > 0))
  /\ TechCase({"resistance_break"}) =>
       (ev.out.ret <=>
          (ev.data.resistanceLevel # <<>> /\ ev.data.resistanceLevel[1].n > 0))

\* a support_break rule has fired on a positive level, the snapshot carrying
\* nothing else
C7_Witness ==
  /\ TechCase({"support_break"})
  /\ ev.data = TechSnapshot(Undefined, Some(ToNum(MaxLevel)), Undefined)
  /\ ev.out.ret /\ ev.out.alert.isTriggered

(***************************************************************************)
(* The notification specification: rules fire, and testAlert,              *)
(* updateSettings, markNotificationAsRead and clearAllNotifications are    *)
(* called                                                                  *)
(***************************************************************************)
\* rules created in one behaviour (at most one of them technical), and test
\* notifications requested while fewer than this many notifications exist
MaxFirers == 3

\* updateSettings sets maxNotifications to a value in 0..MaxCap
MaxCap == 2

NotifTicks == {PriceTick("AAPL", 3, 0, 1)}

NotifSettingsUpdates ==
  {[NoPartial EXCEPT !.maxNotifications = Some(m)] : m \in 0..MaxCap}

NotifsCreated == nextSeq - 1

NextNotif ==
  \/ HistRoom /\ \E t \in NotifTicks : Tick(t)
  \/ \E rs \in [1..FiringsDue -> {0}] : RunEffects(rs)
  \/ /\ RulesCreated < MaxFirers
     /\ \E d \in StorePriceDrafts : AddPriceAlert(d, RulesCreated)
  \/ /\ RulesCreated < MaxFirers /\ alerts.technicalAlerts = <<>>
     /\ \E d \in StoreTechnicalDrafts : AddTechnicalAlert(d, RulesCreated)
  \/ NotifsCreated < MaxFirers /\ TestAlert(0)
  \/ \E u \in NotifSettingsUpdates : UpdateSettings(u)
  \/ \E id \in NotificationIds : MarkNotificationAsRead(id)
  \/ ClearAllNotifications

SpecNotif == Init /\ [][NextNotif]_vars

(***************************************************************************)
(* C9: in every reachable state of the store the notification list is no   *)
(* longer than settings.maxNotifications.                                  *)
(***************************************************************************)
C9_Cap == Len(alerts.notifications) <= alerts.settings.maxNotifications

(***************************************************************************)
(* C10: the notification list is always ordered newest first.  A run of    *)
(* the monitoring effect that fires k rules puts their k notifications in  *)
(* front, the latest first, and keeps the old list in its order behind     *)
(* them, cut at its old end: the list afterwards is a prefix of the new    *)
(* notifications followed by the old ones, of length maxNotifications when *)
(* that many exist (for a maximum of at least 1).  So a firing into a list *)
(* that is at the maximum evicts exactly the oldest notification, and with *)
(* a maximum of 2 three firings leave the two most recent notifications.   *)
(***************************************************************************)
NewestFirst(list) == \A i, j \in 1..Len(list) : i < j => list[i].seq > list[j].seq

C10_Eviction ==
  [][/\ NewestFirst(alerts'.notifications)
     /\ (EffectsStep /\ due.monitor /\ last'.fired # <<>>) =>
          LET k    == Len(last'.fired)
              old  == alerts.notifications
              max  == alerts.settings.maxNotifications
              list == alerts'.notifications
          IN  /\ list # <<>>
              /\ Len(list) <= k + Len(old)
              /\ \A i \in 1..Len(list) :
                   IF i <= k
                   THEN /\ list[i].seq = last'.fired[k - i + 1].seq
                        /\ list[i].seq = nextSeq + k - i
                        /\ list[i].type = last'.fired[k - i + 1].kind
                   ELSE list[i] = old[i - k]
              /\ max >= 1 => Len(list) = Min(k + Len(old), max)
              /\ (k = 1 /\ max >= 1 /\ Len(old) = max) =>
                   list = <<list[1]>> \o SubSeq(old, 1, Len(old) - 1)]_vars

\* with a maximum of 2, three rules have fired in one run into a list of two
\* notifications: the list holds the two notifications created last
C10_Witness ==
  /\ alerts.settings.maxNotifications = 2
  /\ Len(last.fired) = 3
  /\ Cardinality(FiredUids(last)) = 3
  /\ NotifsCreated >= 5
  /\ Len(alerts.notifications) = 2
  /\ alerts.notifications[1].seq = last.fired[3].seq
  /\ alerts.notifications[2].seq = last.fired[2].seq

(***************************************************************************)
(* The history specification: one RSI rule with the default level watches  *)
(* a symbol while ticks of constant price arrive for two symbols           *)
(***************************************************************************)
\* entries a symbol's price history may hold when a tick arrives
MaxPushes == 15

HistTicks == {PriceTick("AAPL", 1, 0, 1), PriceTick("MSFT", 1, 0, 1)}

HistDrafts ==
  {TechnicalDraft("AAPL", "rsi_overbought", Undefined, Undefined, TRUE, TRUE, TRUE)}

NextHist ==
  \/ /\ \A s \in Symbols : Len(priceHistory[s]) < MaxPushes
     /\ \E t \in HistTicks : Tick(t)
  \/ \E rs \in [1..FiringsDue -> {0}] : RunEffects(rs)
  \/ /\ alerts.technicalAlerts = <<>>
     /\ \E d \in HistDrafts : AddTechnicalAlert(d, 0)

SpecHist == Init /\ [][NextHist]_vars

\* no tick of the feed can pass the rule's guards
GuardFails(x) ==
  \/ ~x.rule.isActive
  \/ x.rule.isTriggered
  \/ ~HasTick(x.rule.symbol)

MaxOpsRules == 2

MaxClock == 1

NextOps ==
  \/ \E rs \in [1..FiringsDue -> RandVals] : RunEffects(rs)
  \/ now < MaxClock /\ Tock
  \/ /\ RulesCreated < MaxOpsRules
     /\ \E d \in StorePriceDrafts, r \in RandVals : AddPriceAlert(d, r)
  \/ /\ RulesCreated < MaxOpsRules
     /\ \E d \in StoreTechnicalDrafts, r \in RandVals : AddTechnicalAlert(d, r)
  \/ /\ RulesCreated < MaxOpsRules
     /\ \E d \in StoreNewsDrafts, r \in RandVals : AddNewsAlert(d, r)
  \/ \E id \in RuleIds, type \in AlertKinds : ToggleAlert(id, type)

SpecOps == Init /\ [][NextOps]_vars

\* the list of an AlertState that a type argument names
ListOf(a, type) ==
  CASE type = "price" -> a.priceAlerts
    [] type = "technical" -> a.technicalAlerts
    [] type = "news" -> a.newsAlerts

C14_DistinctIds ==
  \A k \in AlertKinds :
    \A i, j \in 1..Len(ListOf(alerts, k)) :
      i # j => ListOf(alerts, k)[i].id # ListOf(alerts, k)[j].id

(***************************************************************************)
(* The removal specification: rules are created, fire on the ticks of one  *)
(* symbol at one price, and are deleted or cleared                         *)
(***************************************************************************)
MaxOpsHist == 3

RemoveTicks == {PriceTick("AAPL", 3, 0, 1)}

\* a price rule the tick satisfies, one it does not, and an inactive one
RemovePriceDrafts ==
  {PriceDraft("AAPL", "price_above", 2, "greater_than", TRUE, TRUE, TRUE),
   PriceDraft("AAPL", "price_above", 5, "greater_than", TRUE, TRUE, TRUE),
   PriceDraft("AAPL", "price_above", 2, "greater_than", FALSE, TRUE, TRUE)}

OpsRoom == \A s \in Symbols : Len(priceHistory[s]) < MaxOpsHist

NextRemove ==
  \/ OpsRoom /\ \E t \in RemoveTicks : Tick(t)
  \/ \E rs \in [1..FiringsDue -> RandVals] : RunEffects(rs)
  \/ /\ OpsRoom /\ RulesCreated < MaxOpsRules
     /\ \E d \in RemovePriceDrafts, r \in RandVals : AddPriceAlert(d, r)
  \/ /\ OpsRoom /\ RulesCreated < MaxOpsRules
     /\ \E d \in StoreTechnicalDrafts, r \in RandVals : AddTechnicalAlert(d, r)
  \/ /\ OpsRoom /\ RulesCreated < MaxOpsRules
     /\ \E d \in StoreNewsDrafts, r \in RandVals : AddNewsAlert(d, r)
  \/ OpsRoom /\ \E id \in RuleIds, type \in AlertKinds : DeleteAlert(id, type)
  \/ OpsRoom /\ ClearTriggeredAlerts

SpecRemove == Init /\ [][NextRemove]_vars

\* the ids of the rules that notifications refer to
NotifiedIds(a) == {a.notifications[i].alertId : i \in 1..Len(a.notifications)}

AllRuleIds(a) ==
  IdsOf(a.priceAlerts) \cup IdsOf(a.technicalAlerts) \cup IdsOf(a.newsAlerts)

\* the last step was an operation of the hook whose effects have yet to run
OperationDone == due.save /\ last = NoLast /\ nextUid > 1

(***************************************************************************)
(* C12: deleteAlert(id, type) removes from the list named by type the      *)
(* rules with that id, active or not, triggered or not, and keeps the      *)
(* others in their order and unchanged; the other two lists, the           *)
(* notifications (those that refer to the deleted rule included), the      *)
(* settings, the stored blob and the service are as before; with an id     *)
(* the named list does not hold the state is unchanged.                    *)
(***************************************************************************)
C12_Delete ==
  [][\A id \in RuleIds, type \in AlertKinds :
       DeleteAlert(id, type) =>
         /\ ListOf(alerts', type) =
              SelectSeq(ListOf(alerts, type), LAMBDA a : a.id # id)
         /\ id \notin IdsOf(ListOf(alerts', type))
         /\ \A k \in AlertKinds \ {type} : ListOf(alerts', k) = ListOf(alerts, k)
         /\ alerts'.notifications = alerts.notifications
         /\ alerts'.settings = alerts.settings
         /\ UNCHANGED <<realTimePrices, priceHistory, svc, storage>>
         /\ (id \notin IdsOf(ListOf(alerts, type)) => alerts' = alerts)]_vars

\* a rule that had fired is gone and its notification is still there, while
\* another triggered rule is still in the store
C12_Witness ==
  /\ OperationDone
  /\ \E x \in NotifiedIds(alerts) : x \notin AllRuleIds(alerts)
  /\ \E x \in RulesOf(alerts) : x.rule.isTriggered

(***************************************************************************)
(* C13: clearTriggeredAlerts removes every price and technical rule whose  *)
(* isTriggered is true and only those: the untriggered rules are still     *)
(* there, in their order and unchanged; the news rules, the notifications, *)
(* the settings, the stored blob and the service are as before.            *)
(***************************************************************************)
C13_Clear ==
  [][ClearTriggeredAlerts =>
       /\ \A k \in {"price", "technical"} :
            ListOf(alerts', k) =
              SelectSeq(ListOf(alerts, k), LAMBDA a : ~a.isTriggered)
       /\ TriggeredUids(alerts') = {}
       /\ {x.rule.uid : x \in RulesOf(alerts')} =
            {x.rule.uid : x \in RulesOf(alerts)} \ TriggeredUids(alerts)
       /\ alerts'.newsAlerts = alerts.newsAlerts
       /\ alerts'.notifications = alerts.notifications
       /\ alerts'.settings = alerts.settings
       /\ UNCHANGED <<realTimePrices, priceHistory, svc, storage>>]_vars

\* of two rules one had fired and is gone, its notification is still there,
\* and the one that had not fired is the only rule left
C13_Witness ==
  /\ OperationDone
  /\ nextUid = 3
  /\ Len(alerts.notifications) = 1
  /\ NotifiedIds(alerts) \cap AllRuleIds(alerts) = {}
  /\ Cardinality(RulesOf(alerts)) = 1
  /\ TriggeredUids(alerts) = {}

(***************************************************************************)
(* The persistence specification: every operation of the hook is called    *)
(* while ticks arrive, and React runs the effects that are due             *)
(***************************************************************************)
MaxSaveRules == 1

SaveSettingsUpdates == {[NoPartial EXCEPT !.soundEnabled = Some(FALSE)]}

\* React runs the passive effects of a commit
EffectsRun == \E rs \in [1..FiringsDue -> RandVals] : RunEffects(rs)

NextSave ==
  \/ OpsRoom /\ \E t \in RemoveTicks : Tick(t)
  \/ EffectsRun
  \/ /\ OpsRoom /\ RulesCreated < MaxSaveRules
     /\ \E d \in StorePriceDrafts : AddPriceAlert(d, RulesCreated)
  \/ OpsRoom /\ \E id \in RuleIds : ToggleAlert(id, "price")
  \/ OpsRoom /\ \E id \in RuleIds : DeleteAlert(id, "price")
  \/ OpsRoom /\ ClearTriggeredAlerts
  \/ OpsRoom /\ \E id \in NotificationIds : MarkNotificationAsRead(id)
  \/ OpsRoom /\ \E p \in SaveSettingsUpdates : UpdateSettings(p)

\* React runs the effects of every commit, so a run that is due does happen
SpecSave == Init /\ [][NextSave]_vars /\ WF_vars(EffectsRun)

\* the blob under 'smartAlerts' is the serialization of the state in memory
Saved == storage = Some(Serialize(alerts))

MaxLoadRules == 2

LoadSettings ==
  [browserNotifications |-> TRUE, soundEnabled |-> FALSE,
   emailNotifications |-> FALSE, maxNotifications |-> DefaultMaxNotifications]

\* what the value of a list property of a stored object can be
FieldShapes == {JMissing, JNull, JNumber, JArray(<<>>)}

LoadBlobs ==
  {EmptyText, InvalidText, JSONText(JNull), JSONText(JNumber)}
    \cup {JSONText(JObject(fields)) :
            fields \in [priceAlerts : FieldShapes, technicalAlerts : FieldShapes,
                        newsAlerts : FieldShapes, notifications : FieldShapes,
                        settings : {JMissing, JObject(LoadSettings)}]}

Unmounted == [kind |-> "unmounted"]

Crashed == [kind |-> "crashed"]

Running == ev.kind = "mounted"

\* the state before the first render, over any content of localStorage
InitLoad ==
  /\ alerts = DefaultAlerts
  /\ realTimePrices = <<>>
  /\ priceHistory = [s \in Symbols |-> <<>>]
  /\ svc = [soundEnabled |-> TRUE, audioContext |-> TRUE,
            notificationPermission |-> "granted", permission |-> "granted",
            prompts |-> 0]
  /\ storage \in {Undefined} \cup {Some(blob) : blob \in LoadBlobs}
  /\ now = 0
  /\ due = NoneDue
  /\ nextUid = 1
  /\ nextSeq = 1
  /\ fireCount = [u \in {} |-> 0]
  /\ last = NoLast
  /\ ev = Unmounted

\* the first commit of a page load whose load effect had the outcome out: the
\* save effect writes the default state, the monitoring effect finds no price,
\* and the update the load effect queued is rendered
Mounted(out) ==
  /\ alerts' = out.alerts
  /\ ev' = IF out.threw THEN Crashed
           ELSE [kind |-> "mounted", loaded |-> out.called]
  /\ due' = IF out.called /\ ~out.threw THEN AfterSetAlerts(TRUE) ELSE NoneDue
  /\ storage' = Some(Serialize(DefaultAlerts))
  /\ realTimePrices' = <<>>
  /\ priceHistory' = [s \in Symbols |-> <<>>]
  /\ svc' = [svc EXCEPT !.soundEnabled = TRUE]
  /\ last' = NoLast
  /\ UNCHANGED <<now, nextUid, nextSeq, fireCount>>

\* the page is loaded, for the first time or again
Mount ==
  /\ Idle
  /\ \E out \in {LoadEffect(DefaultAlerts, storage)} : Mounted(out)

NextLoad ==
  \/ Mount
  \/ Running /\ OpsRoom /\ \E t \in RemoveTicks : Tick(t)
  \/ Running /\ EffectsRun
  \/ /\ Running /\ OpsRoom /\ RulesCreated < MaxLoadRules
     /\ \E d \in StorePriceDrafts : AddPriceAlert(d, 0)
  \/ /\ Running /\ OpsRoom /\ RulesCreated < MaxLoadRules
     /\ \E d \in StoreTechnicalDrafts : AddTechnicalAlert(d, 0)
  \/ /\ Running /\ OpsRoom /\ RulesCreated < MaxLoadRules
     /\ \E d \in StoreNewsDrafts : AddNewsAlert(d, 0)
  \/ Running /\ OpsRoom /\ \E id \in NotificationIds : MarkNotificationAsRead(id)
  \/ Running /\ OpsRoom /\ \E u \in SaveSettingsUpdates : UpdateSettings(u)

SpecLoad == InitLoad /\ [][NextLoad]_vars

\* C16: loading never throws an uncaught error, whatever localStorage holds:
\* nothing, a text that is no JSON, a JSON value that is no object, or an object
\* whose list properties are missing or no arrays.
C16_LoadNeverThrows == ev # Crashed

\* C17: the state read back from the text the save effect writes for a state
\* is that state: rules with their ids, flags, conditions, parameters, trigger
\* metadata and both timestamps, notifications with their read flags and
\* timestamps, and the settings; and a page load over the saved state of a
\* store at rest starts from that state.
C17_RoundTrip ==
  /\ [](LoadEffect(DefaultAlerts, Some(Serialize(alerts)))
          = [called |-> TRUE, threw |-> FALSE, alerts |-> alerts])
  /\ [][Running /\ Mount => alerts' = alerts]_vars

\* a page was loaded over a saved state with a triggered rule that carries its
\* trigger time and metadata, and a notification that was read
C17_Witness ==
  /\ Running /\ ev.loaded /\ realTimePrices = <<>>
  /\ \E i \in 1..Len(alerts.priceAlerts) :
       /\ alerts.priceAlerts[i].isTriggered
       /\ IsDefined(alerts.priceAlerts[i].triggeredAt)
       /\ IsDefined(alerts.priceAlerts[i].metadata)
  /\ \E i \in 1..Len(alerts.notifications) : alerts.notifications[i].isRead
  /\ alerts.settings # DefaultAlerts.settings

(***************************************************************************)
(* The channel specification: rules with every choice of their browser and *)
(* sound flags fire while the settings panel switches the global toggles   *)
(* and the browser's permission is granted, denied or undecided            *)
(***************************************************************************)
MaxChanRules == 1

MaxPrompts == 2

Permissions == {"default", "granted", "denied"}

ChanPriceDrafts ==
  {PriceDraft("AAPL", "price_above", 2, "greater_than", TRUE, browser, sound) :
     browser \in BOOLEAN, sound \in BOOLEAN}

ChanTechnicalDrafts ==
  {TechnicalDraft("AAPL", "rsi_overbought", Some(40), Undefined, TRUE, browser, sound) :
     browser \in BOOLEAN, sound \in BOOLEAN}

ChanSettingsKeys == {"browserNotifications", "soundEnabled"}

\* the service constructed under the browser permission p, the user having
\* answered the prompt its constructor may have issued
ConstructedService(p, answer) ==
  RequestNotificationPermission([soundEnabled |-> TRUE, audioContext |-> TRUE,
                                 notificationPermission |-> "default",
                                 permission |-> p, prompts |-> 0],
                                answer)

InitChan ==
  /\ alerts = DefaultAlerts
  /\ realTimePrices = <<>>
  /\ priceHistory = [s \in Symbols |-> <<>>]
  /\ svc \in {ConstructedService(p, answer) : p \in Permissions, answer \in Permissions}
  /\ storage = <<>>
  /\ now = 0
  /\ due = [save |-> TRUE, monitor |-> TRUE]
  /\ nextUid = 1
  /\ nextSeq = 1
  /\ fireCount = [u \in {} |-> 0]
  /\ last = NoLast
  /\ ev = NoEv

\* handleSettingsUpdate(key, value) of the settings panel, the user answering
\* the prompt should one be issued
HandleSettingsUpdate(key, value, answer) ==
  /\ Idle
  /\ SetAlerts([alerts EXCEPT
                  !.settings = MergeSettings(@, [NoPartial EXCEPT ![key] = Some(value)])],
               FALSE)
  /\ svc' = IF key = "soundEnabled" THEN SetSoundEnabled(svc, value)
            ELSE IF key = "browserNotifications" /\ value
            THEN RequestNotificationPermission(svc, answer)
            ELSE svc
  /\ UNCHANGED <<realTimePrices, priceHistory, storage, now, nextUid, nextSeq,
                 fireCount, ev>>

NextChan ==
  \/ OpsRoom /\ \E t \in RemoveTicks : Tick(t)
  \/ EffectsRun
  \/ /\ OpsRoom /\ RulesCreated < MaxChanRules
     /\ \E d \in ChanPriceDrafts : AddPriceAlert(d, 0)
  \/ /\ OpsRoom /\ RulesCreated < MaxChanRules
     /\ \E d \in ChanTechnicalDrafts : AddTechnicalAlert(d, 0)
  \/ /\ OpsRoom /\ svc.prompts < MaxPrompts
     /\ \E key \in ChanSettingsKeys, value \in BOOLEAN, answer \in Permissions :
          HandleSettingsUpdate(key, value, answer)

SpecChan == InitChan /\ [][NextChan]_vars

\* the rule that the i-th firing of the last step fired
FiredRule(i) ==
  (CHOOSE x \in RulesOf(alerts) : x.rule.uid = last.fired[i].uid).rule

Firings == 1..Len(last.fired)

\* C18: a change of the sound toggle or of the browser-notification toggle
\* takes effect at once: with settings.soundEnabled false no firing plays a
\* sound, and with settings.browserNotifications false no firing shows a visual
\* notification.
C18_TogglesTakeEffect ==
  \A i \in Firings :
    /\ ~alerts.settings.soundEnabled => last.fired[i].fx.tones = <<>>
    /\ ~alerts.settings.browserNotifications => last.fired[i].fx.visuals = 0

\* C19: a firing shows a visual notification only if the rule's browser flag
\* and settings.browserNotifications are both true, and plays a sound only if
\* the rule's sound flag and settings.soundEnabled are both true.
C19_ChannelGating ==
  \A i \in Firings :
    /\ last.fired[i].fx.visuals > 0 =>
         /\ FiredRule(i).notificationSettings.browser
         /\ alerts.settings.browserNotifications
    /\ last.fired[i].fx.tones # <<>> =>
         /\ FiredRule(i).notificationSettings.sound
         /\ alerts.settings.soundEnabled

\* what the trigger function of the i-th firing has a service do
TriggerFx(i, service) ==
  IF last.fired[i].kind = "price"
  THEN TriggerPriceAlert(FiredRule(i), realTimePrices[1], service, now).fx
  ELSE TriggerTechnicalAlert(FiredRule(i), service, now).fx

\* C20: while the service's permission is not 'granted' a firing shows no
\* visual notification, its rule is marked triggered, its notification is in
\* the list, and it plays the sounds it would play with the permission
\* granted; and once the browser's permission is 'granted' or 'denied' no step
\* prompts for it or changes it.
C20_Permission ==
  /\ [](svc.notificationPermission # "granted" =>
          \A i \in Firings :
            /\ last.fired[i].fx.visuals = 0
            /\ FiredRule(i).isTriggered
            /\ IsDefined(FiredRule(i).triggeredAt)
            /\ \E n \in 1..Len(alerts.notifications) :
                 /\ alerts.notifications[n].seq = last.fired[i].seq
                 /\ alerts.notifications[n].alertId = FiredRule(i).id
            /\ last.fired[i].fx.tones
                 = TriggerFx(i, [svc EXCEPT !.notificationPermission = "granted"]).tones)
  /\ [][svc.permission \in {"granted", "denied"} =>
          /\ svc'.prompts = svc.prompts
          /\ svc'.permission = svc.permission]_vars

\* a rule fired with a sound and without a visual notification after the user
\* denied the prompt
C20_Witness ==
  /\ svc.permission = "denied"
  /\ svc.notificationPermission = "denied"
  /\ svc.prompts > 0
  /\ \E i \in Firings :
       /\ FiredRule(i).notificationSettings.browser
       /\ last.fired[i].fx.tones # <<>>

(***************************************************************************)
(* The two-store specification: App holds one instance of the hook, whose  *)
(* operations the alerts page calls, and a SmartAlerts component mounts a  *)
(* second instance; ev holds the second instance                           *)
(***************************************************************************)
MaxTwoRules == 1

\* the second instance with the state s and the effects d yet to run; its feed
\* has delivered no price
Instance(s, d) ==
  [kind |-> "store", alerts |-> s, due |-> d, realTimePrices |-> <<>>,
   priceHistory |-> [sym \in Symbols |-> <<>>]]

BothIdle == Idle /\ (ev.kind = "store" => ev.due = NoneDue)

InitTwo ==
  /\ alerts = DefaultAlerts
  /\ realTimePrices = <<>>
  /\ priceHistory = [s \in Symbols |-> <<>>]
  /\ svc = [soundEnabled |-> TRUE, audioContext |-> TRUE,
            notificationPermission |-> "granted", permission |-> "granted",
            prompts |-> 0]
  /\ storage = <<>>
  /\ now = 0
  /\ due = [save |-> TRUE, monitor |-> TRUE]
  /\ nextUid = 1
  /\ nextSeq = 1
  /\ fireCount = [u \in {} |-> 0]
  /\ last = NoLast
  /\ ev = Unmounted

\* the first commit of the SmartAlerts component whose load effect had the
\* outcome out: its save effect writes the default state it rendered with
SmartAlertsMounted(out) ==
  /\ ~out.threw
  /\ ev' = Instance(out.alerts,
                    IF out.called THEN AfterSetAlerts(TRUE) ELSE NoneDue)
  /\ storage' = Some(Serialize(DefaultAlerts))
  /\ UNCHANGED <<alerts, realTimePrices, priceHistory, svc, now, due, nextUid,
                 nextSeq, fireCount, last>>

MountSmartAlerts ==
  /\ Idle
  /\ ev = Unmounted
  /\ \E out \in {LoadEffect(DefaultAlerts, storage)} : SmartAlertsMounted(out)

\* the effects of the second instance that are due: the save effect, then the
\* monitoring effect with the outcome m
SmartAlertsMonitored(m) ==
  /\ ev' = [ev EXCEPT !.alerts = m.alerts,
                      !.priceHistory = m.history,
                      !.due = [save |-> Len(m.fired) > 0,
                               monitor |-> Len(m.fired) > 0]]
  /\ nextSeq' = nextSeq + Len(m.fired)

SmartAlertsEffects ==
  /\ ev.kind = "store"
  /\ ev.due # NoneDue
  /\ storage' = IF ev.due.save THEN Some(Serialize(ev.alerts)) ELSE storage
  /\ IF ev.due.monitor
     THEN \E m \in {MonitorEffect(ev.alerts, ev.realTimePrices, ev.priceHistory,
                                   svc, now, <<>>, nextSeq)} :
            SmartAlertsMonitored(m)
     ELSE /\ ev' = [ev EXCEPT !.due = NoneDue]
          /\ nextSeq' = nextSeq
  /\ UNCHANGED <<alerts, realTimePrices, priceHistory, svc, now, due, nextUid,
                 fireCount, last>>

\* updateSettings of the second instance
SmartAlertsUpdateSettings(newSettings) ==
  /\ BothIdle
  /\ ev.kind = "store"
  /\ ev' = [ev EXCEPT !.alerts.settings = MergeSettings(@, newSettings),
                      !.due = AfterSetAlerts(FALSE)]
  /\ svc' = IF IsDefined(newSettings.soundEnabled)
            THEN SetSoundEnabled(svc, newSettings.soundEnabled[1])
            ELSE svc
  /\ UNCHANGED <<alerts, realTimePrices, priceHistory, storage, now, due, nextUid,
                 nextSeq, fireCount, last>>

\* toggleAlert of the second instance
SmartAlertsToggleAlert(id, type) ==
  /\ BothIdle
  /\ ev.kind = "store"
  /\ ev' = [ev EXCEPT !.alerts = Toggled(@, id, type),
                      !.due = AfterSetAlerts(type \in {"price", "technical"})]
  /\ UNCHANGED <<alerts, realTimePrices, priceHistory, svc, storage, now, due,
                 nextUid, nextSeq, fireCount, last>>

NextTwo ==
  \/ EffectsRun
  \/ SmartAlertsEffects
  \/ MountSmartAlerts
  \/ /\ BothIdle /\ RulesCreated < MaxTwoRules
     /\ \E d \in StorePriceDrafts : AddPriceAlert(d, 0)
  \/ BothIdle /\ \E id \in RuleIds : ToggleAlert(id, "price")
  \/ BothIdle /\ \E u \in StoreSettingsUpdates : UpdateSettings(u)
  \/ \E u \in SaveSettingsUpdates : SmartAlertsUpdateSettings(u)
  \/ /\ ev.kind = "store"
     /\ \E id \in IdsOf(ev.alerts.priceAlerts) : SmartAlertsToggleAlert(id, "price")

SpecTwo == InitTwo /\ [][NextTwo]_vars

\* C21: there is one logical writer of the persisted aggregate: whenever both
\* instances of the store are at rest they hold the same aggregate and
\* localStorage holds that aggregate, so neither has overwritten rules or
\* notifications the other persisted.
C21_SingleWriter ==
  (ev.kind = "store" /\ BothIdle) =>
    /\ ev.alerts = alerts
    /\ storage = Some(Serialize(alerts))

(***************************************************************************)
(* The lifecycle specification: notifications are created by firings and   *)
(* by testAlert, read, cleared, and cut to a maximum of 2                  *)
(***************************************************************************)
MaxLifeNotifs == 3

LifeSettingsUpdates == {[NoPartial EXCEPT !.maxNotifications = Some(2)]}

NextLife ==
  \/ HistRoom /\ \E t \in NotifTicks : Tick(t)
  \/ \E rs \in [1..FiringsDue -> {0}] : RunEffects(rs)
  \/ /\ RulesCreated < MaxLifeNotifs
     /\ \E d \in StorePriceDrafts : AddPriceAlert(d, RulesCreated)
  \/ NotifsCreated < MaxLifeNotifs /\ TestAlert(0)
  \/ \E u \in LifeSettingsUpdates : UpdateSettings(u)
  \/ \E id \in NotificationIds : MarkNotificationAsRead(id)
  \/ ClearAllNotifications

SpecLife == Init /\ [][NextLife]_vars

SeqsOf(list) == {list[i].seq : i \in 1..Len(list)}

\* the notification of the list with the sequence number q
WithSeq(list, q) == list[CHOOSE i \in 1..Len(list) : list[i].seq = q]

\* the notifications of the list that the step kept, in their order
Kept(list, kept) == SelectSeq(list, LAMBDA n : n.seq \in kept)

\* a notification enters the list unread and only in a step that created it (a
\* firing or testAlert), and one that stays changes in nothing but its isRead
\* flag, which only ever goes from false to true
EntersAndStays(old, new) ==
  /\ \A q \in SeqsOf(new) \ SeqsOf(old) :
       /\ ~WithSeq(new, q).isRead
       /\ q >= nextSeq /\ q < nextSeq'
       /\ (last'.fired # <<>> \/ last'.fx.calls > 0)
  /\ \A q \in SeqsOf(new) \cap SeqsOf(old) :
       /\ [WithSeq(new, q) EXCEPT !.isRead = FALSE]
            = [WithSeq(old, q) EXCEPT !.isRead = FALSE]
       /\ WithSeq(old, q).isRead => WithSeq(new, q).isRead

\* C22 as stated: every notification is created unread, by a firing or by
\* testAlert only; the only change to an existing notification is its isRead
\* flag going to true; and a notification leaves the list only through
\* clearAllNotifications, which empties the list.
C22_LeavesOnlyByClear ==
  [][/\ EntersAndStays(alerts.notifications, alerts'.notifications)
     /\ SeqsOf(alerts.notifications) \ SeqsOf(alerts'.notifications) # {} =>
          /\ alerts'.notifications = <<>>
          /\ nextSeq' = nextSeq]_vars

\* C22, amended: as stated, except that a notification also leaves the list
\* when a rule firing prepends notifications and the list is cut to
\* maxNotifications: the notifications that stay are then the front of the old
\* list, so those that leave are its oldest.
C22_Lifecycle ==
  [][/\ EntersAndStays(alerts.notifications, alerts'.notifications)
     /\ SeqsOf(alerts.notifications) \ SeqsOf(alerts'.notifications) # {} =>
          \/ /\ alerts'.notifications = <<>>
             /\ nextSeq' = nextSeq
          \/ /\ last'.fired # <<>>
             /\ \E k \in 0..Len(alerts.notifications) :
                  Kept(alerts'.notifications, SeqsOf(alerts.notifications))
                    = SubSeq(alerts.notifications, 1, k)]_vars

\* a firing has just cut the list to its maximum, and the list holds a
\* notification that was marked read
C22_Witness ==
  /\ last.fired # <<>>
  /\ alerts.settings.maxNotifications > 0
  /\ Len(alerts.notifications) = alerts.settings.maxNotifications
  /\ NotifsCreated > Len(alerts.notifications)
  /\ \E i \in 1..Len(alerts.notifications) : alerts.notifications[i].isRead

(***************************************************************************)
(* updateAlert, and the update specification: rules fire while updateAlert *)
(* and toggleAlert are called on them and the clock advances               *)
(***************************************************************************)
MaxUpdRules == 1

\* {...alert, ...updates}
Spread(alert, updates) ==
  [k \in DOMAIN alert \cup DOMAIN updates |->
     IF k \in DOMAIN updates THEN updates[k] ELSE alert[k]]

\* the updater updateAlert hands to setAlerts
Updated(prev, id, updates) ==
  LET merge(a) == IF a.id = id THEN Spread(a, updates) ELSE a
  IN  [prev EXCEPT !.priceAlerts = MapSeq(@, merge),
                   !.technicalAlerts = MapSeq(@, merge),
                   !.newsAlerts = MapSeq(@, merge)]

UpdateAlert(id, updates) ==
  /\ Idle
  /\ SetAlerts(Updated(alerts, id, updates), TRUE)
  /\ UNCHANGED <<realTimePrices, priceHistory, svc, storage, now, nextUid, nextSeq,
                 fireCount, ev>>

\* the update fields tried: a Partial of a rule
AlertUpdates == {[isTriggered |-> FALSE], [isActive |-> FALSE], [message |-> "n"]}

NextUpd ==
  \/ OpsRoom /\ \E t \in RemoveTicks : Tick(t)
  \/ EffectsRun
  \/ OpsRoom /\ now < MaxClock /\ Tock
  \/ /\ OpsRoom /\ RulesCreated < MaxUpdRules
     /\ \E d \in StorePriceDrafts : AddPriceAlert(d, 0)
  \/ /\ OpsRoom /\ RulesCreated < MaxUpdRules
     /\ \E d \in StoreTechnicalDrafts : AddTechnicalAlert(d, 0)
  \/ OpsRoom /\ \E id \in RuleIds, type \in AlertKinds : ToggleAlert(id, type)
  \/ OpsRoom /\ \E id \in RuleIds, u \in AlertUpdates : UpdateAlert(id, u)

SpecUpd == Init /\ [][NextUpd]_vars

\* C23: a price or technical rule has a trigger time exactly when it is
\* triggered; a rule that fires becomes triggered with the time of the firing,
\* a price rule also with the price, threshold and percent change of the
\* firing tick; and a trigger time that is set is never changed by a later
\* tick or operation.
C23_TriggerTime ==
  /\ [](\A x \in RulesOf(alerts) : IsDefined(x.rule.triggeredAt) <=> x.rule.isTriggered)
  /\ [][\A x \in RulesOf(alerts), y \in RulesOf(alerts') :
          (x.rule.uid = y.rule.uid /\ IsDefined(x.rule.triggeredAt)) =>
            y.rule.triggeredAt = x.rule.triggeredAt]_vars
  /\ [][\A i \in 1..Len(last'.fired) :
          \E y \in RulesOf(alerts') :
            /\ y.rule.uid = last'.fired[i].uid
            /\ y.rule.isTriggered
            /\ y.rule.triggeredAt = Some(now)
            /\ y.kind = "price" =>
                 \E j \in 1..Len(realTimePrices) :
                   /\ realTimePrices[j].symbol = y.rule.symbol
                   /\ y.rule.metadata
                        = Some([currentPrice  |-> realTimePrices[j].price,
                                triggerPrice  |-> y.rule.condition.value,
                                percentChange |-> realTimePrices[j].changePercent])]_vars

\* C26: over every sequence of the store's operations, updateAlert with any
\* update fields included, a price or technical rule instance has its trigger
\* function called, and a notification created for it, at most once; and no
\* operation other than deleteAlert and clearTriggeredAlerts ends the
\* triggered state of a rule that stays in its list.
C26_LatchAllOperations ==
  [][/\ \A u \in DOMAIN fireCount' : fireCount'[u] <= 1
     /\ \A u \in TriggeredUids(alerts) :
          (\E y \in RulesOf(alerts') : y.rule.uid = u) => u \in TriggeredUids(alerts')]_vars

(***************************************************************************)
(* technicalIndicators: the moving averages, MACD and ATR, on exact        *)
(* rationals; Undefined stands for null                                    *)
(***************************************************************************)
\* xs.reduce((acc, val) => acc + val, 0)
RECURSIVE SumNums(_)
SumNums(xs) == IF xs = <<>> THEN ToNum(0) ELSE JsAdd(Head(xs), SumNums(Tail(xs)))

\* calculateSMA
CalculateSMA(data, period) ==
  [i \in 1..Len(data) |->
     IF i - 1 < period - 1
     THEN Undefined
     ELSE Some(JsDiv(SumNums(SubSeq(data, Max(i - period + 1, 1), i)), ToNum(period)))]

\* calculateEMA
CalculateEMA(data, period) ==
  LET multiplier == JsDiv(ToNum(2), ToNum(period + 1))
      result[i \in 1..Len(data)] ==
        IF i = 1 THEN Some(data[1])
        ELSE IF i - 1 < period - 1
        THEN Some(JsDiv(SumNums(SubSeq(data, 1, i)), ToNum(i)))
        ELSE IF result[i - 1] # Undefined
        THEN Some(JsAdd(JsMul(data[i], multiplier),
                        JsMul(result[i - 1][1], JsSub(ToNum(1), multiplier))))
        ELSE Undefined
  IN  [i \in 1..Len(data) |-> result[i]]

\* the MACD line: fastEMA - slowEMA where both are there
MacdLine(data, fastPeriod, slowPeriod) ==
  [i \in 1..Len(data) |->
     IF /\ CalculateEMA(data, fastPeriod)[i] # Undefined
        /\ CalculateEMA(data, slowPeriod)[i] # Undefined
     THEN Some(JsSub(CalculateEMA(data, fastPeriod)[i][1],
                     CalculateEMA(data, slowPeriod)[i][1]))
     ELSE Undefined]

\* macdLine.filter(val => val !== null)
ValidValues(line) ==
  LET F[i \in 0..Len(line)] ==
        IF i = 0 THEN <<>>
        ELSE IF line[i] # Undefined THEN Append(F[i - 1], line[i][1]) ELSE F[i - 1]
  IN  F[Len(line)]

\* the number of values of the line that are there among its first i
ValidUpTo(line, i) == Cardinality({j \in 1..i : line[j] # Undefined})

\* value || null
OrNull(value) == IF value # Undefined /\ Truthy(value[1]) THEN value ELSE Undefined

\* the signal line aligned with the MACD line
AlignedSignalLine(macdLine, signalLine) ==
  [i \in 1..Len(macdLine) |->
     IF macdLine[i] # Undefined
     THEN OrNull(signalLine[ValidUpTo(macdLine, i)])
     ELSE Undefined]

\* the result of calculateMACD from its two lines
MacdResult(macdLine, signal) ==
  [i \in 1..Len(macdLine) |->
     [macd      |-> macdLine[i],
      signal    |-> signal[i],
      histogram |-> IF macdLine[i] # Undefined /\ signal[i] # Undefined
                    THEN Some(JsSub(macdLine[i][1], signal[i][1]))
                    ELSE Undefined]]

\* calculateMACD
CalculateMACD(data, fastPeriod, slowPeriod, signalPeriod) ==
  Bind(MacdLine(data, fastPeriod, slowPeriod),
       LAMBDA macdLine :
         MacdResult(macdLine,
                    AlignedSignalLine(macdLine,
                                      CalculateEMA(ValidValues(macdLine), signalPeriod))))

\* Math.max(tr1, tr2, tr3) of a candle and the candle before it
TrueRange(current, previous) ==
  ToNum(Max(current.high - current.low,
            Max(Abs(current.high - previous.close),
                Abs(current.low - previous.close))))

\* calculateATRIndicator
CalculateATRIndicator(data, period) ==
  <<Undefined>>
    \o CalculateEMA([i \in 1..(Len(data) - 1) |-> TrueRange(data[i + 1], data[i])],
                    period)

(***************************************************************************)
(* The indicator specification: one call of an indicator function on a     *)
(* series of up to MaxLen values                                           *)
(***************************************************************************)
MaxLen == 3

MaxPeriod == 3

MaxPrice == 2

SeriesOf(values) == UNION {[1..n -> values] : n \in 0..MaxLen}

PriceSeries == SeriesOf({ToNum(p) : p \in 0..MaxPrice})

Candles == {[high |-> 2, low |-> 1, close |-> 1], [high |-> 3, low |-> 2, close |-> 3]}

IndicatorCall(fn, data, periods, out) ==
  /\ ev' = [kind |-> "indicator", fn |-> fn, data |-> data, periods |-> periods,
            out |-> out]
  /\ UNCHANGED <<alerts, realTimePrices, priceHistory, svc, storage, now, due,
                 nextUid, nextSeq, fireCount, last>>

\* one call in each behaviour
NextInd ==
  /\ ev = NoEv
  /\ \/ \E data \in PriceSeries, period \in 1..MaxPeriod :
          IndicatorCall("calculateSMA", data, <<period>>, CalculateSMA(data, period))
     \/ \E data \in PriceSeries, period \in 1..MaxPeriod :
          IndicatorCall("calculateEMA", data, <<period>>, CalculateEMA(data, period))
     \/ \E data \in PriceSeries, fast \in 1..MaxPeriod, slow \in 1..MaxPeriod,
           signal \in 1..MaxPeriod :
          /\ fast < slow
          /\ IndicatorCall("calculateMACD", data, <<fast, slow, signal>>,
                           CalculateMACD(data, fast, slow, signal))
     \/ \E data \in SeriesOf(Candles), period \in 1..MaxPeriod :
          IndicatorCall("calculateATRIndicator", data, <<period>>,
                        CalculateATRIndicator(data, period))

SpecInd == Init /\ [][NextInd]_vars

\* C24: every indicator function returns a sequence as long as its input, for
\* every input length, the empty input and inputs shorter than the period
\* included.
C24_SameLength == ev.kind = "indicator" => Len(ev.out) = Len(ev.data)

\* the EMA(signalPeriod) of the MACD values that are there, at the position
\* aligned with index i of the call of calculateMACD
SignalAt(i) ==
  CalculateEMA(ValidValues(MacdLine(ev.data, ev.periods[1], ev.periods[2])),
               ev.periods[3])[ValidUpTo(MacdLine(ev.data, ev.periods[1],
                                                 ev.periods[2]), i)]

\* C25: at every index where the MACD line is defined the signal is defined
\* and is the EMA(signalPeriod) of the defined MACD values at the aligned
\* position, and the histogram is defined and is macd - signal, also when the
\* signal is exactly 0.
C25_MacdAlignment ==
  ev.kind = "indicator" /\ ev.fn = "calculateMACD" =>
    \A i \in 1..Len(ev.out) :
      ev.out[i].macd # Undefined =>
        /\ ev.out[i].signal = SignalAt(i)
        /\ ev.out[i].signal # Undefined
        /\ ev.out[i].histogram
             = Some(JsSub(ev.out[i].macd[1], SignalAt(i)[1]))

(***************************************************************************)
(* The mount specification: the load specification, and page loads whose   *)
(* mount effects run a second time before the first update is rendered     *)
(***************************************************************************)
\* the load effect, the save effect and the load effect again: the second load
\* effect reads what the save effect wrote for the state of the first render,
\* and its updater is applied to the state the first updater returned
RepeatedLoad(savedAlerts) ==
  Bind(LoadEffect(DefaultAlerts, savedAlerts),
       LAMBDA first :
         IF first.threw THEN first
         ELSE Bind(LoadEffect(first.alerts, Some(Serialize(DefaultAlerts))),
                   LAMBDA second : [second EXCEPT !.called = TRUE]))

\* the page is loaded and its mount effects run twice
MountRepeated ==
  /\ Idle
  /\ \E out \in {RepeatedLoad(storage)} : Mounted(out)

NextMount ==
  \/ NextLoad
  \/ MountRepeated

SpecMount == InitLoad /\ [][NextMount]_vars

\* C27: a page load over the saved state of a store at rest, with one run of
\* the mount effects or with a repeated run, starts from that state and not
\* from the empty default, and once the effects of the load have run the
\* storage holds that state again.
C27_StartupKeepsState ==
  /\ [][(Mount \/ MountRepeated) /\ Running /\ Saved => alerts' = alerts]_vars
  /\ [](Running /\ Idle => Saved)

(***************************************************************************)
(* The sound specification: the page is loaded over whatever localStorage  *)
(* holds, rules with a sound flag fire, the sound toggle of the settings   *)
(* panel is used, and the page is loaded again                             *)
(***************************************************************************)
MaxSoundRules == 1

NextSound ==
  \/ Mount
  \/ Running /\ OpsRoom /\ \E t \in RemoveTicks : Tick(t)
  \/ Running /\ EffectsRun
  \/ /\ Running /\ OpsRoom /\ RulesCreated < MaxSoundRules
     /\ \E d \in ChanPriceDrafts : AddPriceAlert(d, 0)
  \/ /\ Running /\ OpsRoom
     /\ \E value \in BOOLEAN : HandleSettingsUpdate("soundEnabled", value, "granted")

SpecSound == InitLoad /\ [][NextSound]_vars

\* C28: the sound flag of the notification service equals settings.soundEnabled
\* in every state of the running page, also right after a persisted state with
\* soundEnabled false was loaded, and no firing plays a sound while
\* settings.soundEnabled is false.
C28_SoundInSync ==
  Running /\ Idle =>
    /\ svc.soundEnabled = alerts.settings.soundEnabled
    /\ ~alerts.settings.soundEnabled => \A i \in Firings : last.fired[i].fx.tones = <<>>

(***************************************************************************)
(* The reach specification: technical rules of every kind are added, each  *)
(* with an id of its own, and ticks of several prices and volumes arrive   *)
(***************************************************************************)
MaxReachRules == 2

ReachKinds == {"macd_crossover", "support_break", "resistance_break", "volume_breakout"}

\* a rule of each of the four kinds with the default parameters, a volume rule
\* with a multiplier of 1, and an RSI rule
ReachDrafts ==
  {TechnicalDraft("AAPL", type, Undefined, Undefined, TRUE, TRUE, TRUE) :
     type \in ReachKinds}
    \cup {TechnicalDraft("AAPL", "volume_breakout", Undefined, Some(1), TRUE, TRUE, TRUE),
          TechnicalDraft("AAPL", "rsi_overbought", Some(40), Undefined, TRUE, TRUE, TRUE)}

ReachTicks == {PriceTick("AAPL", p, 0, v) : p \in {1, 3}, v \in {0, 1, 4}}

NextReach ==
  \/ OpsRoom /\ \E t \in ReachTicks : Tick(t)
  \/ EffectsRun
  \/ /\ OpsRoom /\ RulesCreated < MaxReachRules
     /\ \E d \in ReachDrafts : AddTechnicalAlert(d, RulesCreated)

SpecReach == Init /\ [][NextReach]_vars

\* the rules of the four kinds with the default parameters
DefaultReachRule(alert) ==
  /\ alert.type \in ReachKinds
  /\ alert.parameters.volumeMultiplier = Undefined

\* C29: a rule of each of the kinds macd_crossover, support_break,
\* resistance_break and volume_breakout (default multiplier 2) can become
\* triggered in the running store: for every active rule of these kinds that
\* is not triggered there is a tick of its symbol for which the snapshot the
\* store builds (rsi, volume, averageVolume = 0.8 x volume) satisfies the
\* rule's condition.  For these kinds the snapshot depends on the tick alone,
\* so a rule that no tick satisfies in one step is never triggered.
C29_KindsReachable ==
  \A i \in 1..Len(alerts.technicalAlerts) :
    /\ DefaultReachRule(alerts.technicalAlerts[i])
    /\ alerts.technicalAlerts[i].isActive
    /\ ~alerts.technicalAlerts[i].isTriggered
    => \E t \in ReachTicks :
         /\ t.symbol = alerts.technicalAlerts[i].symbol
         /\ TechnicalShouldTrigger(
              alerts.technicalAlerts[i],
              TechnicalDataOf(PushHistory(priceHistory, t.symbol, t.price), t))

\* no rule of the four kinds with the default parameters is ever triggered,
\* while the RSI rule and the volume rule with multiplier 1 are
ReachNeverTriggered ==
  \A i \in 1..Len(alerts.technicalAlerts) :
    DefaultReachRule(alerts.technicalAlerts[i]) => ~alerts.technicalAlerts[i].isTriggered

(***************************************************************************)
(* C30: the price history of a symbol holds at most 100 entries; it grows  *)
(* only in the run of the monitoring effect that follows a tick of that    *)
(* symbol, and then by exactly that tick's price, so that no operation on  *)
(* the rule lists and no tick of another symbol adds an entry; and a       *)
(* history of fewer than 15 entries gives the neutral RSI 50.              *)
(***************************************************************************)
C30_OneEntryPerTick ==
  /\ [](\A s \in Symbols :
          /\ Len(priceHistory[s]) <= HistoryCap
          /\ Len(priceHistory[s]) < RsiMinPrices
               => CalculateSimpleRSI(priceHistory[s]) = ToNum(50))
  /\ [][\A s \in Symbols :
          /\ priceHistory'[s] # priceHistory[s] => (EffectsStep /\ last.tick = Some(s))
          /\ (EffectsStep /\ last.tick = Some(s))
               => priceHistory'[s]
                    = PushHistory(priceHistory, s, TickOf(s).price)[s]]_vars

=============================================================================
